---- MODULE Spec2Model ----
(***************************************************************************)
(* The client repository of the game server (engine/game_server/src/       *)
(* client.rs): the table of per-player client records, the connection      *)
(* state machine (Pending, Connected, Limbo, Stale), the two-phase         *)
(* Authenticate handler, Register / Unregister, the broadcaster tick, the  *)
(* prune sweep and the session persister.                                  *)
(*                                                                         *)
(* The actor handles one message at a time, so every handler is one        *)
(* action.  Authenticate is two actions because its future suspends on     *)
(* get_session; put_session futures complete in their own action.          *)
(*                                                                         *)
(* Time is a discrete monotonic clock `now` (Instant::now()).  The         *)
(* durations of the source (10 s Pending, G::LIMBO, STALE_EXPIRY, the 30 s *)
(* database interval) are kept as named durations but scaled down to a few *)
(* clock units: the code only ever adds them to `now` and compares the sum *)
(* with a later `now`.  The wall clock (get_unix_time_now()), which stamps *)
(* the metrics, is a second clock `unix_time`.                             *)
(*                                                                         *)
(* What a handler puts out is kept until the next handler runs: `sent` is  *)
(* what it enqueued on each channel, `log` the lines it logged.            *)
(***************************************************************************)
EXTENDS Integers, Sequences, FiniteSets, TLC

(***************************************************************************)
(* Bounds of the model.                                                    *)
(***************************************************************************)
NumPlayers == 2
NumChannels == 2
NumSessionIds == 2
NumPeriods == 1
MaxAuths == 1
MaxTime == 3
MaxUnixTime == 1
\* client.traces < 25: the cap on the traces of a client, scaled down.
TRACE_LIMIT == 2
\* Durations, in clock units.
PENDING_EXPIRY == 1
LIMBO == 1
STALE_EXPIRY == 1
DATABASE_RATE_LIMIT == 1

\* ServerId::new(200): the substitute server id of a read-only store.
FAKE_SERVER_ID == 200
\* Duration::from_secs(1): how long a player may be alive and still change
\* its alias, in seconds.
ALIAS_GRACE == 1
\* message.len() > 2048
TRACE_MAX_LEN == 2048
\* tps.clamp(0.0, 144.0)
MIN_TPS == 0
MAX_TPS == 144
\* The ids the server can turn out to have.
NumServerIds == 1
NumIpAddrs == 1
\* authenticate_rate_limiter_props: the interval and the burst.
AUTHENTICATE_INTERVAL == 2
BURST == 2

PlayerIds == 1 .. NumPlayers
\* A bot has a player record but no client data.
BotIds == {NumPlayers + 1}
AllIds == PlayerIds \cup BotIds
Channels == 1 .. NumChannels
ServerIds == 1 .. NumServerIds
IpAddrs == 1 .. NumIpAddrs
SessionIds == 1 .. NumSessionIds
\* The arena of this server, and one other arena.
arena_id == 1
ArenaIds == {arena_id, arena_id + 1}

\* Option<T>: None is the empty tuple, Some(x) the one-element tuple.
None == <<>>
Some(x) == <<x>>

VARIABLES
    now,                \* Instant::now()
    unix_time,          \* get_unix_time_now()
    players,            \* PlayerRepo: player id -> absent | bot | client
    auths,              \* Authenticate futures suspended before their map()
    inflight,           \* put_session futures not yet completed
    database_until,     \* database_rate_limiter: the instant it admits again
    server_id,          \* Infrastructure::server_id
    database_read_only, \* Infrastructure::database_read_only
    joined_minus_left,  \* per player: player_joined calls - player_left calls
    puts,               \* per player: put_session calls of the last sweep
    put_failed,         \* players with a put_session failed since the last sweep
    swept,              \* a sweep has run and no client record changed since
    sent,               \* per channel: what the last handler enqueued, in order
    log,                \* the lines the last handler logged or appended
    websockets,         \* <<channel, player id>>: the web sockets that are open
    authenticate_rate_limiter, \* per address: the window and its admissions
    admissions,         \* per address and instant: the requests let through
    trace_requests,     \* per player: the Trace requests handled so far
    result,             \* what the last Authenticate returned, if it has
    ticked,             \* what update() was given, right after it
    returned_early      \* when the last invocation of the persister that
                        \* the limiter admitted was, if it found no server id

time == <<now, unix_time>>
config == <<server_id, database_read_only>>
store == <<inflight, database_until, puts, put_failed>>
\* What lies around the client table: who sends the messages, the limiter
\* of the addresses, and what was asked and answered.  A handler below says
\* nothing about them; the step that delivers its message does.
outside == <<websockets, authenticate_rate_limiter, admissions, trace_requests,
             result>>
\* A step that is no tick and leaves them alone.
Outside == UNCHANGED <<outside, returned_early>> /\ ticked' = None
vars == <<now, unix_time, players, auths, inflight, database_until, server_id,
          database_read_only, joined_minus_left, puts, put_failed, swept,
          sent, log, websockets, authenticate_rate_limiter, admissions,
          trace_requests, result, ticked, returned_early>>

(***************************************************************************)
(* Data.                                                                   *)
(***************************************************************************)
Pending(e) == [kind |-> "Pending", expiry |-> e]
Connected(ch) == [kind |-> "Connected", observer |-> ch]
Limbo(e) == [kind |-> "Limbo", expiry |-> e]
Stale(e) == [kind |-> "Stale", expiry |-> e]

NoPlayer == [kind |-> "absent"]
BotPlayer == [kind |-> "bot"]

default_alias == "Guest"

\* ClientMetricData::from(&msg): the dates start at the time of the request,
\* there is no earlier session, no fps has been tallied.
ClientMetricData ==
    [date_renewed |-> unix_time, date_previous |-> None, fps |-> None]

\* client_metric_data.supplement(&session_item): the metrics take over what
\* the earlier session tells.
Supplement(metrics, session_item) ==
    [metrics EXCEPT !.date_previous = Some(session_item.date_renewed)]

\* G::ClientData::default(), ClientChatData::default() and
\* ClientTeamData::default(): what a client that remembers nothing has.  The
\* tick hands each of them to the subsystem that keeps it, and from then on
\* it is no longer the default.
ClientData == "default"
ClientChatData == "default"
ClientTeamData == "default"
Kept == "kept"

PlayerClientData(session_id, metrics) ==
    [kind |-> "client",
     session_id |-> session_id,
     alias |-> default_alias,
     status |-> Pending(now + PENDING_EXPIRY),
     session_item |-> None,
     metrics |-> metrics,
     chat |-> ClientChatData,
     team |-> ClientTeamData,
     traces |-> 0,
     data |-> ClientData]

HasClient(p) == players[p].kind = "client"
Clients == {p \in AllIds : HasClient(p)}
StatusIs(p, kinds) == HasClient(p) /\ players[p].status.kind \in kinds

NoSends == [ch \in Channels |-> <<>>]
NoCalls == [p \in AllIds |-> 0]
Line(text, player_id) == [line |-> text, player_id |-> player_id]

\* observer.send(..): the result is ignored, the message is appended.
Send(s, ch, m) == [s EXCEPT ![ch] = Append(@, m)]

RECURSIVE SendAll(_, _, _)
SendAll(s, ch, ms) ==
    IF ms = <<>> THEN s ELSE SendAll(Send(s, ch, Head(ms)), ch, Tail(ms))

RECURSIVE Repeat(_, _)
Repeat(m, n) == IF n = 0 THEN <<>> ELSE <<m>> \o Repeat(m, n - 1)

Opt(present, m) == IF present THEN <<m>> ELSE <<>>

Init ==
    /\ now = 0
    /\ unix_time = 0
    /\ players = [p \in AllIds |-> IF p \in BotIds THEN BotPlayer ELSE NoPlayer]
    /\ auths = {}
    /\ inflight = {}
    /\ database_until = 0
    /\ server_id = None
    /\ database_read_only \in BOOLEAN
    /\ joined_minus_left = NoCalls
    /\ puts = NoCalls
    /\ put_failed = {}
    /\ swept = FALSE
    /\ sent = NoSends
    /\ log = {}
    /\ websockets = {}
    /\ authenticate_rate_limiter = [ip \in IpAddrs |-> None]
    /\ admissions = [ip \in IpAddrs |-> [t \in 0 .. MaxTime |-> 0]]
    /\ trace_requests = NoCalls
    /\ result = None
    /\ ticked = None
    /\ returned_early = None

\* A change to any client record ends the quiet after a sweep.
Touch == swept' = (swept /\ players' = players)

(***************************************************************************)
(* The environment: time passes, the server learns its id.                 *)
(***************************************************************************)
Advance ==
    /\ now < MaxTime
    /\ now' = now + 1
    /\ Outside
    /\ UNCHANGED <<unix_time, players, auths, store, config,
                   joined_minus_left, swept, sent, log>>

AdvanceUnixTime ==
    /\ unix_time < MaxUnixTime
    /\ unix_time' = unix_time + 1
    /\ Outside
    /\ UNCHANGED <<now, players, auths, store, config, joined_minus_left,
                   swept, sent, log>>

LearnServerId ==
    /\ server_id = None
    /\ \E id \in ServerIds : server_id' = Some(id)
    /\ Outside
    /\ UNCHANGED <<time, players, auths, store, database_read_only,
                   joined_minus_left, swept, sent, log>>

(***************************************************************************)
(* Handler<Authenticate>.  The handler itself runs the rate limiter and    *)
(* the in-memory session lookup and returns a future; the future reads the *)
(* store (when it has to) and its map() closure, which runs on the actor   *)
(* later, resolves the ids and touches the table.                          *)
(***************************************************************************)
\* What get_session yields: the item stored under (arena, session id).
StoredSession(session_id, player_id) ==
    [session_id |-> session_id, player_id |-> player_id, date_renewed |-> 0]
DbErr == [kind |-> "Err"]
DbOk(item) == [kind |-> "Ok", item |-> item]

\* players.iter_borrow().find(..): any client that holds the session id.
CachedSessionIdPlayerId(arena_id_session_id) ==
    IF arena_id_session_id # None /\ arena_id_session_id[1][1] = arena_id
    THEN LET msg_session_id == arena_id_session_id[1][2]
             found == {p \in Clients : players[p].session_id = msg_session_id}
         IN IF found = {} THEN {None}
            ELSE {Some(<<msg_session_id, p>>) : p \in found}
    ELSE {None}

\* A handler that makes the record before it returns the future.
AuthenticateStartMutant(ip_address, arena_id_session_id, limited) ==
    /\ limited => ip_address # None
    /\ IF limited
       THEN /\ log' = {Line("IP was rate limited", 0)}
            /\ UNCHANGED <<auths, players>>
       ELSE /\ Cardinality(auths) < MaxAuths
            /\ \E cached \in CachedSessionIdPlayerId(arena_id_session_id) :
                 auths' = auths \cup
                     {[arena_id_session_id |-> arena_id_session_id,
                       cached_session_id_player_id |-> cached]}
            /\ \E session_id \in SessionIds, p \in PlayerIds :
                 /\ players[p].kind = "absent"
                 /\ players' = [players EXCEPT ![p] =
                        PlayerClientData(session_id, ClientMetricData)]
            /\ log' = {}
    /\ sent' = NoSends
    /\ swept' = FALSE
    /\ UNCHANGED <<time, store, config, joined_minus_left>>

\* `limited` is the verdict of authenticate_rate_limiter for the ip.
AuthenticateStart(ip_address, arena_id_session_id, limited) ==
    /\ limited => ip_address # None
    /\ IF limited
       THEN \* Err("rate limit exceeded")
            /\ log' = {Line("IP was rate limited", 0)}
            /\ UNCHANGED auths
       ELSE /\ Cardinality(auths) < MaxAuths
            /\ \E cached \in CachedSessionIdPlayerId(arena_id_session_id) :
                 auths' = auths \cup
                     {[arena_id_session_id |-> arena_id_session_id,
                       cached_session_id_player_id |-> cached]}
            /\ log' = {}
    /\ sent' = NoSends
    /\ UNCHANGED <<time, players, store, config, joined_minus_left, swept>>

\* A future that reads the store although the session is in memory.
GetSessionMutant(a) == a.arena_id_session_id

\* The async block: the get_session call it makes, if it makes one.
GetSession(a) ==
    IF a.cached_session_id_player_id # None THEN None
    ELSE a.arena_id_session_id

\* The async block: what the future hands to its map() closure.
DbResults(a) ==
    IF GetSession(a) = None THEN {DbOk(None)}
    ELSE {DbErr, DbOk(None)} \cup
         {DbOk(Some(StoredSession(GetSession(a)[1][2], p))) : p \in PlayerIds}

\* A generate_id_64() that is taken as it comes.
NewSessionIdsMutant == SessionIds

\* generate_id_64() until no client holds it.
NewSessionIds == SessionIds \ {players[p].session_id : p \in Clients}
\* A generate_id() until no client holds it: the id of a bot will do.
NewPlayerIdsMutant == AllIds \ Clients

\* generate_id() until no player, client or bot, holds it.
NewPlayerIds == {p \in AllIds : players[p].kind = "absent"}

\* A map() closure that has no use for the stored session.
SessionIdPlayerIdMutant(a, db_result) ==
    IF a.cached_session_id_player_id # None
    THEN {a.cached_session_id_player_id[1]}
    ELSE NewSessionIds \X NewPlayerIds

\* The (session_id, player_id) the map() closure settles on.
SessionIdPlayerId(a, db_result) ==
    IF a.cached_session_id_player_id # None
    THEN {a.cached_session_id_player_id[1]}
    ELSE IF db_result.kind = "Ok" /\ db_result.item # None
    THEN {<<db_result.item[1].session_id, db_result.item[1].player_id>>}
    ELSE NewSessionIds \X NewPlayerIds

\* An entry that takes a renewed client back to Pending.
EntryMutant(session_id, player_id, client_metric_data) ==
    IF players[player_id].kind = "client"
    THEN [players EXCEPT ![player_id].metrics.date_renewed = unix_time,
                         ![player_id].status = Pending(now + PENDING_EXPIRY)]
    ELSE IF players[player_id].kind = "bot"
    THEN players
    ELSE [players EXCEPT
            ![player_id] = PlayerClientData(session_id, client_metric_data)]

\* players.players.entry(player_id): renew an occupied entry, fill a vacant one.
Entry(session_id, player_id, client_metric_data) ==
    IF players[player_id].kind = "client"
    THEN [players EXCEPT ![player_id].metrics.date_renewed = unix_time]
    ELSE IF players[player_id].kind = "bot"
    THEN players
    ELSE [players EXCEPT
            ![player_id] = PlayerClientData(session_id, client_metric_data)]

\* client_metric_data as the map() closure has it when it reaches the entry.
MetricData(a, db_result) ==
    IF /\ a.cached_session_id_player_id = None
       /\ db_result.kind = "Ok"
       /\ db_result.item # None
    THEN Supplement(ClientMetricData, db_result.item[1])
    ELSE ClientMetricData

\* The map() closure, which settles on ids and returns Ok(ids[2]).
AuthenticateMap(a, db_result, ids) ==
    /\ a \in auths
    /\ db_result \in DbResults(a)
    /\ ids \in SessionIdPlayerId(a, db_result)
    /\ players' = Entry(ids[1], ids[2], MetricData(a, db_result))
    /\ auths' = auths \ {a}
    /\ sent' = NoSends
    /\ log' = {}
    /\ Touch
    /\ UNCHANGED <<time, store, config, joined_minus_left>>

AuthenticateResume(a, db_result) ==
    \E ids \in SessionIdPlayerId(a, db_result) :
        AuthenticateMap(a, db_result, ids)

\* The caller gives up while the future is suspended: the future is
\* dropped and its map() closure never runs.
AuthenticateCancel(a) ==
    /\ a \in auths
    /\ auths' = auths \ {a}
    /\ sent' = NoSends
    /\ log' = {}
    /\ UNCHANGED <<time, players, store, config, joined_minus_left, swept>>

(***************************************************************************)
(* ClientRepo::register.  team_initializer and system_initializer say      *)
(* whether teams.initializer() and system.initializer() yield a message.   *)
(***************************************************************************)
\* chat.initialize_client(player_id, players): the chat initializer of the
\* client, enqueued on the channel the client is now connected with.
ChatInitializeClient(s, player_id, observer) ==
    Send(s, observer, "Chat(initializer)")

\* A register that forgets to retire the old channel.
RetireMutant(s, old_status) == s

\* The match on old_status: the old channel of a connected client is retired.
Retire(s, old_status) ==
    IF old_status.kind = "Connected"
    THEN Send(s, old_status.observer, "Close") ELSE s

\* A register that makes a client restored from limbo join again.
RejoinsMutant(old_status) == old_status.kind \in {"Pending", "Stale", "Limbo"}

\* The match on old_status: a client that had left the game rejoins it.
Rejoins(old_status) == old_status.kind \in {"Pending", "Stale"}

\* A register that sends the liveboard before the leaderboards.
SendInitializersMutant(s, player_id, register_observer, team_initializer, system_initializer) ==
    LET liveboard == Send(s, register_observer, "Liveboard(initializer)")
        leaderboards == SendAll(liveboard, register_observer,
                            Repeat("Leaderboard(initializer)", NumPeriods))
        chat == ChatInitializeClient(leaderboards, player_id,
                                     register_observer)
        roster == Send(chat, register_observer, "Player(initializer)")
        team == IF team_initializer
                THEN Send(roster, register_observer, "Team(initializer)")
                ELSE roster
    IN IF system_initializer
       THEN Send(team, register_observer, "System(initializer)") ELSE team

\* The initial data, sent after SessionCreated and the change of status.
SendInitializers(s, player_id, register_observer, team_initializer, system_initializer) ==
    LET leaderboards == SendAll(s, register_observer,
                            Repeat("Leaderboard(initializer)", NumPeriods))
        liveboard == Send(leaderboards, register_observer,
                          "Liveboard(initializer)")
        chat == ChatInitializeClient(liveboard, player_id, register_observer)
        roster == Send(chat, register_observer, "Player(initializer)")
        team == IF team_initializer
                THEN Send(roster, register_observer, "Team(initializer)")
                ELSE roster
    IN IF system_initializer
       THEN Send(team, register_observer, "System(initializer)") ELSE team

\* A record whose time is up counts as gone before any sweep.
GoneMutant(player_id) ==
    \/ players[player_id].kind = "absent"
    \/ /\ StatusIs(player_id, {"Pending", "Stale"})
       /\ now > players[player_id].status.expiry

\* players.get(player_id) is None: the table is asked, not the clock.
Gone(player_id) == players[player_id].kind = "absent"

\* A register that takes the client to remember what it was sent.
ForgetMutant(client, new_status) == [client EXCEPT !.status = new_status]

\* The reset of data, chat and team, and the change of status.
Forget(client, new_status) ==
    [client EXCEPT !.data = ClientData,
                   !.chat = ClientChatData,
                   !.team = ClientTeamData,
                   !.status = new_status]

\* A register that welcomes before it looks for the record.
RegisterMutant(player_id, register_observer, team_initializer, system_initializer) ==
    /\ IF Gone(player_id)
       THEN /\ log' = {Line("client gone in register", player_id)}
            /\ sent' = Send(NoSends, register_observer, "SessionCreated")
            /\ UNCHANGED <<players, joined_minus_left>>
       ELSE IF players[player_id].kind = "bot"
       THEN /\ log' = {Line("register wasn't a client", player_id)}
            /\ sent' = NoSends
            /\ UNCHANGED <<players, joined_minus_left>>
       ELSE LET old_status == players[player_id].status
                welcome == Send(NoSends, register_observer, "SessionCreated")
            IN /\ players' = [players EXCEPT
                       ![player_id] = Forget(@, Connected(register_observer))]
               /\ joined_minus_left' =
                      [joined_minus_left EXCEPT
                          ![player_id] =
                              IF Rejoins(old_status) THEN @ + 1 ELSE @]
               /\ log' = IF old_status.kind = "Limbo"
                         THEN {Line("restored from limbo", player_id)}
                         ELSE {}
               /\ sent' = SendInitializers(Retire(welcome, old_status),
                              player_id, register_observer, team_initializer,
                              system_initializer)
    /\ Touch
    /\ UNCHANGED <<time, auths, store, config>>

Register(player_id, register_observer, team_initializer, system_initializer) ==
    /\ IF Gone(player_id)
       THEN /\ log' = {Line("client gone in register", player_id)}
            /\ sent' = NoSends
            /\ UNCHANGED <<players, joined_minus_left>>
       ELSE IF players[player_id].kind = "bot"
       THEN /\ log' = {Line("register wasn't a client", player_id)}
            /\ sent' = NoSends
            /\ UNCHANGED <<players, joined_minus_left>>
       ELSE LET old_status == players[player_id].status
                welcome == Send(NoSends, register_observer, "SessionCreated")
            IN /\ players' = [players EXCEPT
                       ![player_id] = Forget(@, Connected(register_observer))]
               /\ joined_minus_left' =
                      [joined_minus_left EXCEPT
                          ![player_id] =
                              IF Rejoins(old_status) THEN @ + 1 ELSE @]
               /\ log' = IF old_status.kind = "Limbo"
                         THEN {Line("restored from limbo", player_id)}
                         ELSE {}
               /\ sent' = SendInitializers(Retire(welcome, old_status),
                              player_id, register_observer, team_initializer,
                              system_initializer)
    /\ Touch
    /\ UNCHANGED <<time, auths, store, config>>

(***************************************************************************)
(* ClientRepo::unregister.                                                 *)
(***************************************************************************)
\* An unregister that does not look at the channel.
SameChannelMutant(observer, unregister_observer) == TRUE

\* observer.same_channel(&unregister_observer)
SameChannel(observer, unregister_observer) == observer = unregister_observer

Unregister(player_id, unregister_observer) ==
    /\ IF /\ StatusIs(player_id, {"Connected"})
          /\ SameChannel(players[player_id].status.observer,
                         unregister_observer)
       THEN /\ players' = [players EXCEPT
                    ![player_id].status = Limbo(now + LIMBO)]
            /\ log' = {Line("is in limbo", player_id)}
       ELSE /\ UNCHANGED players
            /\ log' = {}
    /\ sent' = NoSends
    /\ Touch
    /\ UNCHANGED <<time, auths, store, config, joined_minus_left>>

(***************************************************************************)
(* ClientRepo::prune.                                                      *)
(***************************************************************************)
\* A prune that leaves a client in limbo at the instant of its expiry.
LimboExpiredMutant(expiry) == now > expiry
\* &now >= expiry: a client in limbo whose time is up.
LimboExpired(expiry) == now >= expiry

\* A prune that waits one clock unit too long.
ForgettableMutant(expiry) == now > expiry + 1
\* &now > expiry: a pending or stale client whose time is up.
Forgettable(expiry) == now > expiry

\* A filter that also keeps the clients whose limbo is over.
ToForgetMutant ==
    {p \in Clients :
        /\ players[p].status.kind \in {"Pending", "Stale", "Limbo"}
        /\ Forgettable(players[p].status.expiry)}

\* The clients the filter keeps: they are forgotten.
ToForget ==
    {p \in Clients :
        /\ players[p].status.kind \in {"Pending", "Stale"}
        /\ Forgettable(players[p].status.expiry)}

\* The clients the filter moves from limbo to stale on its way.
ExpiredFromLimbo ==
    {p \in Clients :
        /\ players[p].status.kind = "Limbo"
        /\ LimboExpired(players[p].status.expiry)}

\* A prune that does not tell the game.
PlayerLeftMutant(left) == joined_minus_left

\* service.player_left(player_tuple), for each client expired from limbo.
PlayerLeft(left) ==
    [p \in AllIds |->
        IF p \in left THEN joined_minus_left[p] - 1 ELSE joined_minus_left[p]]

\* A prune that forgets a client the moment its limbo is over.
PruneMutant ==
    /\ players' =
         [p \in AllIds |->
            IF p \in ToForget \cup ExpiredFromLimbo THEN NoPlayer
            ELSE players[p]]
    /\ joined_minus_left' = PlayerLeft(ExpiredFromLimbo)
    /\ log' = {Line("expired from limbo", p) : p \in ExpiredFromLimbo}
    /\ sent' = NoSends
    /\ Touch
    /\ Outside
    /\ UNCHANGED <<time, auths, store, config>>

Prune ==
    /\ players' =
         [p \in AllIds |->
            IF p \in ToForget THEN NoPlayer
            ELSE IF p \in ExpiredFromLimbo
            THEN [players[p] EXCEPT !.status = Stale(now + STALE_EXPIRY)]
            ELSE players[p]]
    /\ joined_minus_left' = PlayerLeft(ExpiredFromLimbo)
    /\ log' = {Line("expired from limbo", p) : p \in ExpiredFromLimbo}
    /\ sent' = NoSends
    /\ Touch
    /\ Outside
    /\ UNCHANGED <<time, auths, store, config>>

(***************************************************************************)
(* ClientRepo::update, the broadcaster tick.  `d` says which deltas the    *)
(* subsystems have for this tick.  The fan-out is parallel over the        *)
(* players: `order` is the order in which clients that share a channel get *)
(* to enqueue.                                                             *)
(***************************************************************************)
\* What one connected client is sent, in the order of the sends.
ClientUpdatesMutant(d) ==
    Opt(d.game, "Game")
    \o Opt(d.player, "Player::Updated")
    \o Opt(d.team_added, "Team::AddedOrUpdated")
    \o Opt(d.team_removed, "Team::Removed")
    \o Opt(d.members, "Team::Members")
    \o Opt(d.chat, "Chat")
    \o Opt(d.joiners, "Team::Joiners")
    \o Opt(d.joins, "Team::Joins")
    \o Opt(d.liveboard, "Liveboard::Updated")
    \o Repeat("Leaderboard::Updated", d.leaderboards)
    \o Opt(d.system_added, "System::Added")
    \o Opt(d.system_removed, "System::Removed")

ClientUpdates(d) ==
    Opt(d.game, "Game")
    \o Opt(d.player, "Player::Updated")
    \o Opt(d.team_added, "Team::AddedOrUpdated")
    \o Opt(d.team_removed, "Team::Removed")
    \o Opt(d.chat, "Chat")
    \o Opt(d.members, "Team::Members")
    \o Opt(d.joiners, "Team::Joiners")
    \o Opt(d.joins, "Team::Joins")
    \o Repeat("Leaderboard::Updated", d.leaderboards)
    \o Opt(d.liveboard, "Liveboard::Updated")
    \o Opt(d.system_added, "System::Added")
    \o Opt(d.system_removed, "System::Removed")

\* id.is_bot()
IsBot(id) == id \in BotIds

\* A filter that keeps the bots.
PlayerChatTeamUpdatesMutant ==
    {id \in AllIds :
        /\ players[id].kind # "absent"
        /\ IsBot(id)
        /\ StatusIs(id, {"Connected"})}

\* The keys of player_chat_team_updates: the players that are no bots and
\* have a connected client.
PlayerChatTeamUpdates ==
    {id \in AllIds :
        /\ players[id].kind # "absent"
        /\ ~IsBot(id)
        /\ StatusIs(id, {"Connected"})}

\* What is left for a connected client that has no entry in the map.
WithoutEntry(d) ==
    [d EXCEPT !.chat = FALSE, !.members = FALSE, !.joiners = FALSE,
              !.joins = FALSE]

RECURSIVE FanOut(_, _, _)
FanOut(s, order, d) ==
    IF order = <<>> THEN s
    ELSE LET p == Head(order)
             next == IF StatusIs(p, {"Connected"})
                     THEN SendAll(s, players[p].status.observer,
                                  ClientUpdates(
                                      IF p \in PlayerChatTeamUpdates THEN d
                                      ELSE WithoutEntry(d)))
                     ELSE s
         IN FanOut(next, Tail(order), d)

Orders == {o \in [1 .. NumPlayers -> PlayerIds] :
              \A i, j \in 1 .. NumPlayers : o[i] = o[j] => i = j}

\* get_client_update(.., &mut data), ChatRepo::player_delta and
\* teams.player_delta: what the tick hands over of a connected client.
Keep(client) ==
    IF client.kind = "client" /\ client.status.kind = "Connected"
    THEN [client EXCEPT !.data = Kept, !.chat = Kept, !.team = Kept]
    ELSE client

\* let _ = observer.send(..): a send on a closed channel fails, and the
\* failure is dropped with the message.
Delivered(s, closed) ==
    [ch \in Channels |-> IF ch \in closed THEN <<>> ELSE s[ch]]

UpdateMutant(d, order, closed) ==
    /\ sent' = Delivered(FanOut(NoSends, order, d), closed)
    /\ players' =
         [p \in AllIds |->
             IF /\ StatusIs(p, {"Connected"})
                /\ players[p].status.observer \in closed
             THEN [players[p] EXCEPT !.status = Limbo(now + LIMBO)]
             ELSE Keep(players[p])]
    /\ log' = {}
    /\ Touch
    /\ ticked' = Some([deltas |-> d, closed |-> closed])
    /\ UNCHANGED returned_early
    /\ UNCHANGED <<websockets, authenticate_rate_limiter, admissions,
                   trace_requests, result>>
    /\ UNCHANGED <<time, auths, store, config, joined_minus_left>>

\* `closed` are the channels whose receiver is gone.
Update(d, order, closed) ==
    /\ sent' = Delivered(FanOut(NoSends, order, d), closed)
    /\ players' = [p \in AllIds |-> Keep(players[p])]
    /\ log' = {}
    /\ Touch
    /\ ticked' = Some([deltas |-> d, closed |-> closed])
    /\ UNCHANGED returned_early
    /\ UNCHANGED <<websockets, authenticate_rate_limiter, admissions,
                   trace_requests, result>>
    /\ UNCHANGED <<time, auths, store, config, joined_minus_left>>

(***************************************************************************)
(* ClientRepo::update_to_database, the session persister, and the          *)
(* completion of the put_session futures it spawns.                        *)
(***************************************************************************)
\* A limiter that admits every invocation.
ShouldLimitRateMutant == FALSE

\* database_rate_limiter.should_limit_rate(): one sweep per interval.
ShouldLimitRate == now < database_until

\* The item the sweep builds for a client.
SessionItem(player_id, server) ==
    [alias |-> players[player_id].alias,
     arena_id |-> arena_id,
     date_renewed |-> players[player_id].metrics.date_renewed,
     player_id |-> player_id,
     server_id |-> server,
     session_id |-> players[player_id].session_id]

\* A sweep that writes every item, changed or not.
DiffersMutant(session_item, candidate) == TRUE

\* client.session_item.as_ref() != Some(&session_item)
Differs(session_item, candidate) == session_item # Some(candidate)

\* A substitute for the unknown server id whatever the store.
SweepServerIdMutant ==
    IF server_id # None THEN server_id ELSE Some(FAKE_SERVER_ID)

\* infrastructure.server_id.or(database_read_only.then_some(200))
SweepServerId ==
    IF server_id # None THEN server_id
    ELSE IF database_read_only THEN Some(FAKE_SERVER_ID) ELSE None

\* A limiter whose allowance is kept when the server id is unknown.
TakeTokenMutant ==
    database_until' = IF SweepServerId = None THEN database_until
                      ELSE now + DATABASE_RATE_LIMIT

\* should_limit_rate() is false: the allowance is used, whatever follows.
TakeToken == database_until' = now + DATABASE_RATE_LIMIT

\* An invocation that gets past the limiter and the server id.
SweepRuns == ~ShouldLimitRate /\ SweepServerId # None

\* A sweep that keeps session_item for the items it writes.
UpdateToDatabaseMutant ==
    /\ IF ShouldLimitRate
       THEN UNCHANGED <<players, store, swept, log, returned_early>>
       ELSE /\ TakeToken
            /\ returned_early' =
                  IF SweepServerId = None THEN Some(now) ELSE None
            /\ IF SweepServerId = None
               THEN UNCHANGED <<players, inflight, puts, put_failed, swept,
                                log>>
               ELSE LET server == SweepServerId[1]
                        changed == {p \in Clients :
                                      Differs(players[p].session_item,
                                              SessionItem(p, server))}
                    IN /\ players' =
                            [p \in AllIds |->
                               IF p \in changed /\ ~database_read_only
                               THEN [players[p] EXCEPT !.session_item =
                                        Some(SessionItem(p, server))]
                               ELSE players[p]]
                       /\ IF database_read_only
                          THEN /\ log' = {Line("would have written", p) :
                                             p \in changed}
                               /\ puts' = NoCalls
                               /\ UNCHANGED inflight
                          ELSE /\ log' = {}
                               /\ puts' = [p \in AllIds |->
                                             IF p \in changed THEN 1 ELSE 0]
                               /\ inflight' = inflight \cup
                                     {SessionItem(p, server) : p \in changed}
                       /\ put_failed' = {}
                       /\ swept' = TRUE
    /\ sent' = NoSends
    /\ UNCHANGED outside
    /\ ticked' = None
    /\ UNCHANGED <<time, auths, config, joined_minus_left>>

UpdateToDatabase ==
    /\ IF ShouldLimitRate
       THEN UNCHANGED <<players, store, swept, log, returned_early>>
       ELSE /\ TakeToken
            /\ returned_early' =
                  IF SweepServerId = None THEN Some(now) ELSE None
            /\ IF SweepServerId = None
               THEN UNCHANGED <<players, inflight, puts, put_failed, swept,
                                log>>
               ELSE LET server == SweepServerId[1]
                        changed == {p \in Clients :
                                      Differs(players[p].session_item,
                                              SessionItem(p, server))}
                    IN /\ players' =
                            [p \in AllIds |->
                               IF p \in changed
                               THEN [players[p] EXCEPT !.session_item =
                                        Some(SessionItem(p, server))]
                               ELSE players[p]]
                       /\ IF database_read_only
                          THEN /\ log' = {Line("would have written", p) :
                                             p \in changed}
                               /\ puts' = NoCalls
                               /\ UNCHANGED inflight
                          ELSE /\ log' = {}
                               /\ puts' = [p \in AllIds |->
                                             IF p \in changed THEN 1 ELSE 0]
                               /\ inflight' = inflight \cup
                                     {SessionItem(p, server) : p \in changed}
                       /\ put_failed' = {}
                       /\ swept' = TRUE
    /\ sent' = NoSends
    /\ UNCHANGED outside
    /\ ticked' = None
    /\ UNCHANGED <<time, auths, config, joined_minus_left>>

\* A put_session future completes; the actor only logs a failure.
PutSessionDone(item, ok) ==
    /\ item \in inflight
    /\ inflight' = inflight \ {item}
    /\ put_failed' = IF ok THEN put_failed
                     ELSE put_failed \cup {item.player_id}
    /\ log' = IF ok THEN {}
              ELSE {Line("error putting session", item.player_id)}
    /\ sent' = NoSends
    /\ Outside
    /\ UNCHANGED <<time, players, auths, database_until, puts, config,
                   joined_minus_left, swept>>

(***************************************************************************)
(* Handler<ObserverMessage>, the Request arm: the request is dispatched,   *)
(* an immediate reply goes to the channel the client is connected with, an *)
(* error is logged.  A sub-handler yields its result, the player table as  *)
(* it leaves it, and what it wrote.                                        *)
(***************************************************************************)
Ok(value) == [kind |-> "Ok", value |-> value]
Err(s) == [kind |-> "Err", error |-> s]
Handled(r, table, written) == [result |-> r, players |-> table, log |-> written]
\* An early return with an error: nothing was touched yet.
Failed(s) == Handled(Err(s), players, {})

\* warn!("observer request resulted in {}", s)
Warn(s, player_id) ==
    [line |-> "observer request resulted in", error |-> s,
     player_id |-> player_id]

\* handle_game_command: `reply` says whether player_command answers at once.
HandleGameCommand(player_id, reply) ==
    IF players[player_id].kind = "absent"
    THEN Failed("nonexistent observer")
    ELSE Handled(Ok(IF reply THEN Some("Game") ELSE None), players, {})

\* PlayerAlias::new_sanitized: the alias without the space around it.
NewSanitized(alias) == IF alias = " Neo " THEN "Neo" ELSE alias

\* A set_alias that turns down a player alive for exactly the grace.
SetAliasMutant(player_id, alias, alive_duration) ==
    IF players[player_id].kind = "absent"
    THEN Failed("player doesn't exist")
    ELSE IF alive_duration # None /\ alive_duration[1] >= ALIAS_GRACE
    THEN Failed("cannot change alias while alive")
    ELSE IF players[player_id].kind # "client"
    THEN Failed("only clients can set alias")
    ELSE Handled(Ok(Some("Client::AliasSet")),
                 [players EXCEPT ![player_id].alias = NewSanitized(alias)],
                 {})

\* alive_duration is player.alive_duration(), in seconds.
SetAlias(player_id, alias, alive_duration) ==
    IF players[player_id].kind = "absent"
    THEN Failed("player doesn't exist")
    ELSE IF alive_duration # None /\ alive_duration[1] > ALIAS_GRACE
    THEN Failed("cannot change alias while alive")
    ELSE IF players[player_id].kind # "client"
    THEN Failed("only clients can set alias")
    ELSE Handled(Ok(Some("Client::AliasSet")),
                 [players EXCEPT ![player_id].alias = NewSanitized(alias)],
                 {})

\* An f32: a finite value, or not finite (NaN, an infinity).
Finite(value) == [finite |-> TRUE, value |-> value]
NotFinite == [finite |-> FALSE, value |-> 0]

\* A sanitize_tps that lets every finite value through.
SanitizeTpsMutant(tps) == IF tps.finite THEN Some(tps.value) ELSE None

\* tps.is_finite().then_some(tps.clamp(0.0, 144.0))
SanitizeTps(tps) ==
    IF tps.finite
    THEN Some(IF tps.value < MIN_TPS THEN MIN_TPS
              ELSE IF tps.value > MAX_TPS THEN MAX_TPS ELSE tps.value)
    ELSE None

TallyFps(player_id, fps) ==
    IF players[player_id].kind = "absent"
    THEN Failed("player doesn't exist")
    ELSE IF players[player_id].kind # "client"
    THEN Failed("only clients can tally fps")
    ELSE LET stored == [players EXCEPT
                           ![player_id].metrics.fps = SanitizeTps(fps)]
         IN Handled(IF stored[player_id].metrics.fps # None
                    THEN Ok(Some("Client::FpsTallied"))
                    ELSE Err("invalid fps"),
                    stored, {})

\* A trace may be one byte longer.
TraceTooLongMutant(message_len) == message_len > TRACE_MAX_LEN + 1

\* message.len() > 2048
TraceTooLong(message_len) == message_len > TRACE_MAX_LEN

\* A trace that lets one trace too many through.
TraceMutant(player_id, message_len, trace_log) ==
    IF players[player_id].kind = "absent"
    THEN Failed("player doesn't exist")
    ELSE IF players[player_id].kind # "client"
    THEN Failed("only clients can trace")
    ELSE IF TraceTooLong(message_len)
    THEN Failed("trace too long")
    ELSE IF players[player_id].traces <= TRACE_LIMIT
    THEN Handled(Ok(Some("Client::Traced")),
                 [players EXCEPT ![player_id].traces = @ + 1],
                 {Line(IF trace_log = None THEN "client_trace"
                       ELSE IF trace_log[1].opens THEN "trace file append"
                       ELSE "could not open file for traces", player_id)})
    ELSE Failed("too many traces")

\* trace_log is the configured file, if any, and whether it can be opened.
Trace(player_id, message_len, trace_log) ==
    IF players[player_id].kind = "absent"
    THEN Failed("player doesn't exist")
    ELSE IF players[player_id].kind # "client"
    THEN Failed("only clients can trace")
    ELSE IF TraceTooLong(message_len)
    THEN Failed("trace too long")
    ELSE IF players[player_id].traces < TRACE_LIMIT
    THEN Handled(Ok(Some("Client::Traced")),
                 [players EXCEPT ![player_id].traces = @ + 1],
                 {Line(IF trace_log = None THEN "client_trace"
                       ELSE IF trace_log[1].opens THEN "trace file append"
                       ELSE "could not open file for traces", player_id)})
    ELSE Failed("too many traces")

\* handle_observer_request and handle_client_request.
HandleObserverRequest(player_id, request, trace_log) ==
    CASE request.kind = "Game" -> HandleGameCommand(player_id, request.reply)
      [] request.kind = "SetAlias" ->
            SetAlias(player_id, request.alias, request.alive_duration)
      [] request.kind = "TallyFps" -> TallyFps(player_id, request.fps)
      [] request.kind = "Trace" ->
            Trace(player_id, request.message_len, trace_log)

\* Ok(Some(message)): the reply goes to the observer of the status.
Reply(table, player_id, message) ==
    IF /\ table[player_id].kind = "client"
       /\ table[player_id].status.kind = "Connected"
    THEN Send(NoSends, table[player_id].status.observer, message)
    ELSE NoSends

Request(player_id, request, trace_log) ==
    LET handled == HandleObserverRequest(player_id, request, trace_log)
    IN /\ players' = handled.players
       /\ sent' = IF /\ handled.result.kind = "Ok"
                     /\ handled.result.value # None
                  THEN Reply(handled.players, player_id,
                             handled.result.value[1])
                  ELSE NoSends
       /\ log' = IF handled.result.kind = "Err"
                 THEN handled.log \cup {Warn(handled.result.error, player_id)}
                 ELSE handled.log
       /\ Touch
       /\ UNCHANGED <<time, auths, store, config, joined_minus_left>>

(***************************************************************************)
(* Inputs and specifications.                                              *)
(***************************************************************************)
Credentials == {None} \cup {Some(<<a, s>>) : a \in ArenaIds, s \in SessionIds}
\* An address with the verdict of the rate limiter for it, or no address.
AuthenticateInputs == {<<None, FALSE>>, <<Some(1), FALSE>>, <<Some(1), TRUE>>}
\* Whether there is a team initializer and a system initializer.
InitializerInputs == {<<FALSE, FALSE>>, <<TRUE, FALSE>>, <<TRUE, TRUE>>}

Deltas(b, n) ==
    [game |-> b, player |-> b, team_added |-> b, team_removed |-> b,
     chat |-> b, members |-> b, joiners |-> b, joins |-> b,
     leaderboards |-> n, liveboard |-> b, system_added |-> b,
     system_removed |-> b]
\* No delta at all, every delta, and only the game's update.
TickInputs == {Deltas(FALSE, 0), Deltas(TRUE, NumPeriods),
               [Deltas(FALSE, 0) EXCEPT !.game = TRUE]}

Authenticating ==
    \/ \E i \in AuthenticateInputs, c \in Credentials :
         AuthenticateStart(i[1], c, i[2]) /\ Outside
    \/ \E a \in auths : \E r \in DbResults(a) :
         AuthenticateResume(a, r) /\ Outside

\* Requests that carry no address and either no session or one session of
\* this arena: they make a new record, renew one, or restore one from the
\* store under any player id.
AuthenticatingHere ==
    \/ \E c \in {None, Some(<<arena_id, 1>>)} :
         AuthenticateStart(None, c, FALSE) /\ Outside
    \/ \E a \in auths : \E r \in DbResults(a) :
         AuthenticateResume(a, r) /\ Outside

Connecting ==
    \/ \E p \in AllIds, ch \in Channels, i \in InitializerInputs :
         Register(p, ch, i[1], i[2]) /\ Outside
    \/ \E p \in AllIds, ch \in Channels :
         Unregister(p, ch) /\ Outside

\* Ticks with every channel open.
Ticking == \E d \in TickInputs, o \in Orders : Update(d, o, {})

Persisting ==
    \/ UpdateToDatabase
    \/ \E item \in inflight, ok \in BOOLEAN : PutSessionDone(item, ok)

\* The store plays no part in what follows: it is taken to be writable.
WritableInit == Init /\ ~database_read_only

\* Authentication with every kind of request; the clients connect (and so
\* outlive their Pending expiry) but what they are sent stays out.
AuthenticateNext ==
    \/ Advance
    \/ Authenticating
    \/ \E p \in AllIds, ch \in Channels :
         Register(p, ch, FALSE, FALSE) /\ Outside
    \/ Prune

AuthenticateSpec == WritableInit /\ [][AuthenticateNext]_vars

\* The connection state machine: the persister, which reads and writes
\* nothing of it, stays out, and with it the clock that stamps its items.
ClientNext ==
    \/ Advance
    \/ AuthenticatingHere
    \/ Connecting
    \/ Prune
    \/ Ticking

ClientSpec == WritableInit /\ [][ClientNext]_vars

\* The prune sweep runs again and again.  The tick, which reads the status of
\* a client and never writes it, stays out.
FairClientNext ==
    \/ Advance
    \/ AuthenticatingHere
    \/ Connecting
    \/ Prune

FairClientSpec == WritableInit /\ [][FairClientNext]_vars /\ WF_vars(Prune)

(***************************************************************************)
(* The web sockets.  A web socket speaks for one player over one channel:  *)
(* it registers when it starts, sends the requests of its player while it  *)
(* is open, and unregisters when it stops; a web socket that was sent      *)
(* Close is open until it has stopped.                                     *)
(***************************************************************************)
WebSocketStarted(player_id, ch) ==
    /\ \A w \in websockets : w[1] # ch
    /\ Register(player_id, ch, FALSE, FALSE)
    /\ websockets' = websockets \cup {<<ch, player_id>>}
    /\ UNCHANGED <<authenticate_rate_limiter, admissions, trace_requests,
                   result>>
    /\ ticked' = None
    /\ UNCHANGED returned_early

WebSocketStopped(w) ==
    /\ w \in websockets
    /\ Unregister(w[2], w[1])
    /\ websockets' = websockets \ {w}
    /\ UNCHANGED <<authenticate_rate_limiter, admissions, trace_requests,
                   result>>
    /\ ticked' = None
    /\ UNCHANGED returned_early

WebSocketRequest(w, request, trace_log) ==
    /\ w \in websockets
    /\ Request(w[2], request, trace_log)
    /\ Outside

\* A Trace request, counted: the count stops one past the cap.
WebSocketTrace(w, message_len, trace_log) ==
    /\ w \in websockets
    /\ trace_requests[w[2]] <= TRACE_LIMIT
    /\ Request(w[2], [kind |-> "Trace", message_len |-> message_len],
               trace_log)
    /\ trace_requests' = [trace_requests EXCEPT ![w[2]] = @ + 1]
    /\ UNCHANGED <<websockets, authenticate_rate_limiter, admissions, result>>
    /\ ticked' = None
    /\ UNCHANGED returned_early

\* A game command with and without a reply, an alias for a player that is
\* not alive, alive for 1 s and for 2 s, an fps above the range and one that
\* is not finite.
RequestInputs ==
    {[kind |-> "Game", reply |-> r] : r \in BOOLEAN}
    \cup {[kind |-> "SetAlias", alias |-> " Neo ", alive_duration |-> d] :
              d \in {None, Some(ALIAS_GRACE), Some(ALIAS_GRACE + 1)}}
    \cup {[kind |-> "TallyFps", fps |-> f] :
              f \in {Finite(MAX_TPS + 1), NotFinite}}
\* Values below, at and above the ends of the range, and one that is none.
FpsInputs ==
    {Finite(v) : v \in {MIN_TPS - 1, MIN_TPS, MAX_TPS - 1, MAX_TPS, MAX_TPS + 1}}
    \cup {NotFinite}
\* A trace of the greatest length and one beyond it.
TraceLengths == {TRACE_MAX_LEN, TRACE_MAX_LEN + 1}
\* No trace file, one that opens, one that does not.
TraceLogs == {None, Some([opens |-> TRUE]), Some([opens |-> FALSE])}

\* The requests of the clients, at one instant: no record expires, and
\* what the clients are sent at a tick and what becomes of their sessions
\* stays out.  The traces have a specification of their own.
RequestNext ==
    \/ AuthenticatingHere
    \/ \E p \in AllIds, ch \in Channels : WebSocketStarted(p, ch)
    \/ \E w \in websockets : WebSocketStopped(w)
    \/ \E w \in websockets, r \in RequestInputs :
         WebSocketRequest(w, r, None)

RequestSpec == WritableInit /\ [][RequestNext]_vars

\* The traces of the clients over time: the records expire and are made
\* again.  One channel is enough: a trace does not look at it.
\* The tally of the frames per second.
FpsNext ==
    \/ AuthenticatingHere
    \/ \E p \in AllIds : WebSocketStarted(p, 1)
    \/ \E w \in websockets : WebSocketStopped(w)
    \/ \E w \in websockets, f \in FpsInputs :
         WebSocketRequest(w, [kind |-> "TallyFps", fps |-> f], None)

FpsSpec == WritableInit /\ [][FpsNext]_vars

TraceNext ==
    \/ Advance
    \/ AuthenticatingHere
    \/ \E p \in PlayerIds : WebSocketStarted(p, 1)
    \/ \E w \in websockets : WebSocketStopped(w)
    \/ \E w \in websockets, t \in TraceLogs, n \in TraceLengths :
         WebSocketTrace(w, n, t)
    \/ Prune

TraceSpec == WritableInit /\ [][TraceNext]_vars

(***************************************************************************)
(* Admission.  The limiter of the addresses keeps, for an address, the     *)
(* instant its window began and the requests it has let through in that    *)
(* window; an entry whose window is over is evicted.  What an Authenticate *)
(* returned is kept with what it presented and what it asked the store.    *)
(***************************************************************************)
\* The entry of the address is gone or its window is over.
Evicted(ip) ==
    \/ authenticate_rate_limiter[ip] = None
    \/ now >= authenticate_rate_limiter[ip][1].since + AUTHENTICATE_INTERVAL

\* authenticate_rate_limiter.should_limit_rate(ip): the verdict.
IpShouldLimitRate(ip) ==
    ~Evicted(ip) /\ authenticate_rate_limiter[ip][1].admitted >= BURST

\* authenticate_rate_limiter.should_limit_rate(ip): the limiter afterwards.
IpRateLimited(ip) ==
    IF Evicted(ip)
    THEN [authenticate_rate_limiter EXCEPT
            ![ip] = Some([since |-> now, admitted |-> 1])]
    ELSE IF IpShouldLimitRate(ip) THEN authenticate_rate_limiter
    ELSE [authenticate_rate_limiter EXCEPT ![ip][1].admitted = @ + 1]

\* act.metrics.start_session(.., db_result is Ok(Some(_)), ..): the call the
\* map() closure makes, with whether an earlier session was found.
StartSession(db_result) ==
    [previous |-> db_result.kind = "Ok" /\ db_result.item # None]

\* What an Authenticate returned, with what it presented, what it found in
\* memory, what it asked the store, what the store answered and the session
\* start its map() closure, if it ran, recorded in the metrics.
Returned(a, get_session, db_result, reply) ==
    Some([arena_id_session_id |-> a.arena_id_session_id,
          cached_session_id_player_id |-> a.cached_session_id_player_id,
          get_session |-> get_session,
          db_result |-> db_result,
          start_session |-> IF db_result = None THEN None
                            ELSE Some(StartSession(db_result[1])),
          reply |-> reply])

\* A handler that never asks the limiter.
LimitedMutant(ip_address) == FALSE

\* msg.ip_address.map(|ip| ..should_limit_rate(ip)).unwrap_or(false)
Limited(ip_address) == ip_address # None /\ IpShouldLimitRate(ip_address[1])

\* An Authenticate that is let through whatever the limiter says.
AdmissionMutant(ip_address, arena_id_session_id) ==
    /\ AuthenticateStart(ip_address, arena_id_session_id, FALSE)
    /\ authenticate_rate_limiter' =
           IF ip_address = None THEN authenticate_rate_limiter
           ELSE IpRateLimited(ip_address[1])
    /\ admissions' =
           IF ip_address = None THEN admissions
           ELSE [admissions EXCEPT ![ip_address[1]][now] = @ + 1]
    /\ result' = None
    /\ UNCHANGED <<websockets, trace_requests>>
    /\ ticked' = None
    /\ UNCHANGED returned_early

\* An Authenticate message is handled up to the suspension of its future.
Admission(ip_address, arena_id_session_id) ==
    /\ AuthenticateStart(ip_address, arena_id_session_id, Limited(ip_address))
    /\ authenticate_rate_limiter' =
           IF ip_address = None THEN authenticate_rate_limiter
           ELSE IpRateLimited(ip_address[1])
    /\ admissions' =
           IF ip_address = None \/ Limited(ip_address) THEN admissions
           ELSE [admissions EXCEPT ![ip_address[1]][now] = @ + 1]
    /\ result' =
           IF Limited(ip_address)
           THEN Returned([arena_id_session_id |-> arena_id_session_id,
                          cached_session_id_player_id |-> None],
                         None, None, Err("rate limit exceeded"))
           ELSE None
    /\ UNCHANGED <<websockets, trace_requests>>
    /\ ticked' = None
    /\ UNCHANGED returned_early

\* The future of an Authenticate resolves and the caller gets the answer.
Resolution(a, db_result, ids) ==
    /\ AuthenticateMap(a, db_result, ids)
    /\ result' = Returned(a, GetSession(a), Some(db_result), Ok(ids[2]))
    /\ UNCHANGED <<websockets, authenticate_rate_limiter, admissions,
                   trace_requests>>
    /\ ticked' = None
    /\ UNCHANGED returned_early

AdmissionInputs == {None} \cup {Some(ip) : ip \in IpAddrs}

\* The limiter at work: requests that present no session, with and without
\* an address, as time passes.
AdmissionNext ==
    \/ Advance
    \/ \E ip \in AdmissionInputs : Admission(ip, None)
    \/ \E a \in auths : \E r \in DbResults(a) :
         \E ids \in SessionIdPlayerId(a, r) : Resolution(a, r, ids)
    \/ \E a \in auths : AuthenticateCancel(a) /\ Outside
    \/ Prune

AdmissionSpec == WritableInit /\ [][AdmissionNext]_vars

\* What Authenticate returns: requests without an address, whatever they
\* present, while clients connect and the sweep removes those that do not.
ReturnNext ==
    \/ Advance
    \/ \E c \in Credentials : Admission(None, c)
    \/ \E a \in auths : \E r \in DbResults(a) :
         \E ids \in SessionIdPlayerId(a, r) : Resolution(a, r, ids)
    \/ \E a \in auths : AuthenticateCancel(a) /\ Outside
    \/ \E p \in PlayerIds :
         Register(p, 1, FALSE, FALSE) /\ Outside
    \/ Prune

ReturnSpec == WritableInit /\ [][ReturnNext]_vars

\* The life of a record, from the Authenticate that makes it to the sweep
\* that removes it, with what Authenticate returned kept.
LifecycleNext ==
    \/ Advance
    \/ \E c \in {None, Some(<<arena_id, 1>>)} : Admission(None, c)
    \/ \E a \in auths : \E r \in DbResults(a) :
         \E ids \in SessionIdPlayerId(a, r) : Resolution(a, r, ids)
    \/ Connecting
    \/ Prune

LifecycleSpec == WritableInit /\ [][LifecycleNext]_vars

\* Authenticate as the time of day passes: records are made and renewed.
RenewNext ==
    \/ Advance
    \/ AdvanceUnixTime
    \/ \E c \in {None, Some(<<arena_id, 1>>)} : Admission(None, c)
    \/ \E a \in auths : \E r \in DbResults(a) :
         \E ids \in SessionIdPlayerId(a, r) : Resolution(a, r, ids)
    \/ \E p \in PlayerIds :
         Register(p, 1, FALSE, FALSE) /\ Outside
    \/ Prune

RenewSpec == WritableInit /\ [][RenewNext]_vars

\* The deltas of a tick: none, all, all but one, one alone.
DeltaNames ==
    {"game", "player", "team_added", "team_removed", "chat", "members",
     "joiners", "joins", "liveboard", "system_added", "system_removed"}
DeltaInputs ==
    {Deltas(b, n) : b \in BOOLEAN, n \in 0 .. NumPeriods}
    \cup {[Deltas(b, IF b THEN NumPeriods ELSE 0) EXCEPT ![f] = ~b] :
              b \in BOOLEAN, f \in DeltaNames}

\* The tick, with channels that may be closed, among clients that connect,
\* disconnect and expire.
TickNext ==
    \/ Advance
    \/ AuthenticatingHere
    \/ \E p \in PlayerIds, ch \in Channels :
         Register(p, ch, FALSE, FALSE) /\ Outside
    \/ \E p \in PlayerIds, ch \in Channels :
         Unregister(p, ch) /\ Outside
    \/ Prune
    \/ \E d \in TickInputs, o \in Orders, closed \in SUBSET Channels :
         Update(d, o, closed)

TickSpec == WritableInit /\ [][TickNext]_vars

\* The tick with every combination of deltas above, among clients that
\* connect and disconnect.
FanOutNext ==
    \/ AuthenticatingHere
    \/ \E p \in PlayerIds, ch \in Channels :
         Register(p, ch, FALSE, FALSE) /\ Outside
    \/ \E p \in PlayerIds, ch \in Channels :
         Unregister(p, ch) /\ Outside
    \/ \E d \in DeltaInputs, o \in Orders : Update(d, o, {})

FanOutSpec == WritableInit /\ [][FanOutNext]_vars

\* The session persister: the channels, which it neither reads nor writes,
\* stay out.
SessionNext ==
    \/ Advance
    \/ AdvanceUnixTime
    \/ LearnServerId
    \/ AuthenticatingHere
    \/ Prune
    \/ Persisting

SessionSpec == Init /\ [][SessionNext]_vars

\* Everything.
Next ==
    \/ Advance
    \/ AdvanceUnixTime
    \/ LearnServerId
    \/ Authenticating
    \/ \E ip \in AdmissionInputs, c \in Credentials : Admission(ip, c)
    \/ \E a \in auths : \E r \in DbResults(a) :
         \E ids \in SessionIdPlayerId(a, r) : Resolution(a, r, ids)
    \/ \E a \in auths : AuthenticateCancel(a) /\ Outside
    \/ Connecting
    \/ \E p \in AllIds, ch \in Channels : WebSocketStarted(p, ch)
    \/ \E w \in websockets : WebSocketStopped(w)
    \/ \E w \in websockets, r \in RequestInputs, t \in TraceLogs :
         WebSocketRequest(w, r, t)
    \/ \E w \in websockets, t \in TraceLogs, n \in TraceLengths :
         WebSocketTrace(w, n, t)
    \/ Prune
    \/ Ticking
    \/ Persisting

Spec == Init /\ [][Next]_vars
(***************************************************************************)
(* Properties of authentication (AuthenticateSpec) and of the connection   *)
(* state machine (ClientSpec).                                             *)
(***************************************************************************)
\* C1: at every instant no two client records of the table hold the same
\* session_id, whatever sequence of Authenticate requests was handled (no
\* session, a session held in memory, a session of another arena, a session
\* restored from the store).
C1_UniqueSessionId ==
    \A p, q \in Clients :
        p # q => players[p].session_id # players[q].session_id

\* C2: for every player, the player_joined calls minus the player_left calls
\* are 1 while its client is Connected or in Limbo and 0 otherwise (no
\* record, a bot, Pending, Stale): joins and leaves alternate, starting with
\* a join, and a leave only follows a join.
C2_JoinLeaveParity ==
    \A p \in AllIds :
        joined_minus_left[p] =
            IF StatusIs(p, {"Connected", "Limbo"}) THEN 1 ELSE 0

\* A client that joined and then left: stale, with the count back at 0.
C2_Witness ==
    \E p \in PlayerIds :
        /\ StatusIs(p, {"Stale"})
        /\ joined_minus_left[p] = 0
        /\ Line("expired from limbo", p) \in log

\* The number of Close signals in what was enqueued on a channel.
Closes(messages) ==
    Cardinality({i \in DOMAIN messages : messages[i] = "Close"})

\* C3: a Register for a player that is Connected through channel chA enqueues
\* exactly one Close on chA, none on any other channel, and leaves the player
\* Connected through the channel of the Register: a player never has more
\* than the one channel its status holds.
C3_RegisterClosesOldChannel ==
    [][\A p \in PlayerIds, chB \in Channels, i \in InitializerInputs :
          (StatusIs(p, {"Connected"}) /\ Register(p, chB, i[1], i[2])) =>
              LET chA == players[p].status.observer
              IN /\ Closes(sent'[chA]) = 1
                 /\ \A ch \in Channels \ {chA} : Closes(sent'[ch]) = 0
                 /\ players'[p].status = Connected(chB)]_vars

\* A player taken over by a second channel: the first got its Close.
C3_Witness ==
    \E p \in PlayerIds, chA, chB \in Channels :
        /\ chA # chB
        /\ players[p].kind = "client"
        /\ players[p].status = Connected(chB)
        /\ sent[chA] = <<"Close">>
        /\ sent[chB] # <<>>
        /\ Head(sent[chB]) = "SessionCreated"

\* C4: an Unregister changes the state only when the player is a client that
\* is Connected through the very channel of the Unregister, and then the
\* client goes to Limbo with expiry now + LIMBO; otherwise nothing changes.
\* So after Register(chA), Register(chB), Unregister(chA) the client is still
\* Connected through chB.
C4_UnregisterOnlySameChannel ==
    [][\A p \in AllIds, ch \in Channels :
          Unregister(p, ch) =>
              IF /\ StatusIs(p, {"Connected"})
                 /\ players[p].status.observer = ch
              THEN /\ players' = [players EXCEPT
                                     ![p].status = Limbo(now + LIMBO)]
                   /\ UNCHANGED <<auths, store, joined_minus_left>>
              ELSE /\ UNCHANGED <<players, auths, store, joined_minus_left>>
                   /\ log' = {}]_vars

\* A client put in limbo by the Unregister of its channel.
C4_Witness ==
    \E p \in PlayerIds :
        /\ StatusIs(p, {"Limbo"})
        /\ players[p].status.expiry = now + LIMBO
        /\ Line("is in limbo", p) \in log

\* The messages (ObserverUpdate::Send) among what was enqueued on a channel.
Messages(enqueued) == SelectSeq(enqueued, LAMBDA m : m # "Close")

\* The initial data of a Register, in the order the spec gives.
Initializers(team_initializer, system_initializer) ==
    <<"SessionCreated">>
    \o Repeat("Leaderboard(initializer)", NumPeriods)
    \o <<"Liveboard(initializer)", "Chat(initializer)", "Player(initializer)">>
    \o Opt(team_initializer, "Team(initializer)")
    \o Opt(system_initializer, "System(initializer)")

\* C5: a Register that finds a client enqueues on its channel, in this
\* order, SessionCreated, the leaderboard initializer of every period, the
\* liveboard initializer, the chat initializer, the player roster, the team
\* roster if there is one, the system initializer if there is one, and
\* nothing else: no update of a tick comes before or between them.
C5_InitializerOrder ==
    [][\A p \in PlayerIds, ch \in Channels, i \in InitializerInputs :
          (HasClient(p) /\ Register(p, ch, i[1], i[2])) =>
              Messages(sent'[ch]) = Initializers(i[1], i[2])]_vars

\* A Register with a team and a system initializer has just been handled.
C5_Witness ==
    \E p \in PlayerIds, ch \in Channels :
        /\ players[p].kind = "client"
        /\ players[p].status = Connected(ch)
        /\ sent[ch] = Initializers(TRUE, TRUE)

\* C6: a Register for a client in Limbo makes it Connected through the new
\* channel, sends the whole initial data, and calls neither player_joined
\* nor player_left.
C6_RestoreFromLimbo ==
    [][\A p \in PlayerIds, ch \in Channels, i \in InitializerInputs :
          (StatusIs(p, {"Limbo"}) /\ Register(p, ch, i[1], i[2])) =>
              /\ players'[p].status = Connected(ch)
              /\ sent'[ch] = Initializers(i[1], i[2])
              /\ joined_minus_left' = joined_minus_left]_vars

\* A client restored from limbo, the join count still at 1.
C6_Witness ==
    \E p \in PlayerIds, ch \in Channels :
        /\ players[p].kind = "client"
        /\ players[p].status = Connected(ch)
        /\ Line("restored from limbo", p) \in log
        /\ joined_minus_left[p] = 1
        /\ Len(sent[ch]) >= 4 + NumPeriods

(***************************************************************************)
(* Liveness of the prune sweep (FairClientSpec).                           *)
(***************************************************************************)
\* C7: when prune runs again and again, a client in Limbo whose expiry is
\* reached is moved on to Stale (unless a Register restores it first), and a
\* Stale client whose expiry has passed is removed from the table (unless a
\* Register connects it first).
C7_LimboThenStaleThenRemoved ==
    \A p \in PlayerIds :
        /\ (StatusIs(p, {"Limbo"}) /\ now >= players[p].status.expiry)
               ~> StatusIs(p, {"Stale", "Connected"})
        /\ (StatusIs(p, {"Stale"}) /\ now > players[p].status.expiry)
               ~> (~HasClient(p) \/ StatusIs(p, {"Connected"}))

\* A stale client past its expiry: it went through limbo, and prune is due.
C7_Witness ==
    \E p \in PlayerIds :
        /\ StatusIs(p, {"Stale"})
        /\ now > players[p].status.expiry
        /\ joined_minus_left[p] = 0

\* C8: when prune runs again and again, a Pending client that never
\* registers is removed from the table once its expiry has passed.
C8_PendingRemoved ==
    \A p \in PlayerIds :
        (StatusIs(p, {"Pending"}) /\ now > players[p].status.expiry)
            ~> (~HasClient(p) \/ StatusIs(p, {"Connected"}))

\* A pending client past its expiry.
C8_Witness ==
    \E p \in PlayerIds :
        /\ StatusIs(p, {"Pending"})
        /\ now > players[p].status.expiry

(***************************************************************************)
(* Properties of the session persister (SessionSpec).                      *)
(***************************************************************************)
\* C9, as stated: a sweep that follows a sweep with no change to any client
\* record in between issues no put_session, and the sweep before it issued
\* exactly one put_session for every player with a client record.
C9_OnePutEachThenNone ==
    [][(swept /\ SweepRuns /\ UpdateToDatabase) =>
          /\ \A p \in Clients : puts[p] = 1
          /\ puts' = NoCalls]_vars

\* C9, amended: with a writable store a sweep issues exactly one put_session
\* for every player whose record differs from the item last built for it
\* (every record not yet swept among them) and none for the others; a sweep
\* that follows a sweep with no change to any client record in between issues
\* none at all.
C9_DiffSuppression ==
    [][(SweepRuns /\ UpdateToDatabase) =>
          /\ ~database_read_only =>
                \A p \in AllIds :
                    /\ puts'[p] \in {0, 1}
                    /\ (HasClient(p) /\ players[p].session_item = None)
                           => puts'[p] = 1
                    /\ (puts'[p] = 1) <=>
                           /\ HasClient(p)
                           /\ players[p].session_item #
                                  Some(SessionItem(p, SweepServerId[1]))
          /\ swept => puts' = NoCalls]_vars

\* A second sweep, with a writable store, has just found nothing to write.
C9_Witness ==
    /\ ~database_read_only
    /\ swept
    /\ puts = NoCalls
    /\ database_until = now + DATABASE_RATE_LIMIT
    /\ now >= DATABASE_RATE_LIMIT
    /\ \E p \in PlayerIds :
           HasClient(p) /\ players[p].session_item # None

\* C10: after a put_session for a player has failed, the next sweep that
\* runs issues a put_session for that player again.
C10_RetryAfterFailure ==
    [][\A p \in PlayerIds :
          (p \in put_failed /\ HasClient(p) /\ SweepRuns /\ UpdateToDatabase)
              => puts'[p] >= 1]_vars

\* C11: with a writable store, the session_item of a client is a value the
\* store holds: never one whose put_session is still in flight.
C11_SessionItemIsDurable ==
    ~database_read_only =>
        \A p \in Clients :
            players[p].session_item # None =>
                players[p].session_item[1] \notin inflight

(***************************************************************************)
(* Properties of the requests (RequestSpec) and of the traces (TraceSpec). *)
(***************************************************************************)
\* C12: a request that ends in an error leaves every client record as it
\* was.
C12_ErrorsLeaveRecords ==
    [][\A w \in websockets, r \in RequestInputs :
          (/\ WebSocketRequest(w, r, None)
           /\ HandleObserverRequest(w[2], r, None).result.kind = "Err")
              => players' = players]_vars

\* Whether set_alias lets a player of this alive_duration change its alias.
MayChangeAlias(alive_duration) ==
    alive_duration = None \/ alive_duration[1] <= ALIAS_GRACE

\* C13: a SetAlias for a client that is not alive or alive for at most 1 s
\* stores the sanitized alias and replies AliasSet on the channel the client
\* is connected with; for a client alive for more than 1 s it is turned down
\* with "cannot change alias while alive" and changes no record; and the
\* alias of a client changes in no other way.
C13_AliasRule ==
    [][/\ \A w \in websockets, r \in RequestInputs :
            (/\ r.kind = "SetAlias"
             /\ HasClient(w[2])
             /\ WebSocketRequest(w, r, None)) =>
                IF MayChangeAlias(r.alive_duration)
                THEN /\ players'[w[2]].alias = NewSanitized(r.alias)
                     /\ StatusIs(w[2], {"Connected"}) =>
                            sent'[players[w[2]].status.observer] =
                                <<"Client::AliasSet">>
                     /\ log' = {}
                ELSE /\ players' = players
                     /\ sent' = NoSends
                     /\ log' = {Warn("cannot change alias while alive", w[2])}
       /\ \A p \in PlayerIds :
            (/\ HasClient(p)
             /\ players'[p].kind = "client"
             /\ players'[p].alias # players[p].alias) =>
                \E w \in websockets, r \in RequestInputs :
                    /\ w[2] = p
                    /\ r.kind = "SetAlias"
                    /\ MayChangeAlias(r.alive_duration)
                    /\ WebSocketRequest(w, r, None)]_vars

\* A client that has changed its alias is turned down once it is alive.
C13_Witness ==
    \E p \in PlayerIds :
        /\ HasClient(p)
        /\ players[p].alias = "Neo"
        /\ Warn("cannot change alias while alive", p) \in log

\* C14, as stated: the Trace request that comes after TRACE_LIMIT Trace
\* requests of the same player, of whatever length those were and whatever
\* became of the record of the player, is turned down with "too many
\* traces" and writes nothing.
C14_RequestPastCapRejected ==
    [][\A w \in websockets, t \in TraceLogs :
          (/\ trace_requests[w[2]] = TRACE_LIMIT
           /\ HasClient(w[2])
           /\ WebSocketTrace(w, TRACE_MAX_LEN, t))
              => log' = {Warn("too many traces", w[2])}]_vars

\* C14, amended: a client record never holds more than TRACE_LIMIT traces; a
\* Trace request of an allowed length for a record that holds TRACE_LIMIT
\* traces is turned down with "too many traces", writes nothing and changes
\* no record; a Trace request beyond the allowed length is turned down with
\* "trace too long" and is not counted.
C14_TraceCap ==
    [][\A w \in websockets, t \in TraceLogs, n \in TraceLengths :
          (HasClient(w[2]) /\ WebSocketTrace(w, n, t)) =>
              /\ players'[w[2]].traces <= TRACE_LIMIT
              /\ (n <= TRACE_MAX_LEN /\ players[w[2]].traces = TRACE_LIMIT) =>
                    /\ log' = {Warn("too many traces", w[2])}
                    /\ sent' = NoSends
                    /\ players' = players
              /\ (n > TRACE_MAX_LEN) =>
                    /\ log' = {Warn("trace too long", w[2])}
                    /\ sent' = NoSends
                    /\ players' = players]_vars

\* A client at the cap has just been turned down.
C14_Witness ==
    \E p \in PlayerIds :
        /\ HasClient(p)
        /\ players[p].traces = TRACE_LIMIT
        /\ log = {Warn("too many traces", p)}

\* C15: the reply to a request is enqueued on the channel of the web socket
\* that sent the request and on no other.
C15_ReplyToOrigin ==
    [][\A w \in websockets, r \in RequestInputs :
          WebSocketRequest(w, r, None) =>
              \A ch \in Channels \ {w[1]} : sent'[ch] = <<>>]_vars

(***************************************************************************)
(* Properties of admission (AdmissionSpec) and of what Authenticate        *)
(* returns (ReturnSpec).                                                   *)
(***************************************************************************)
RECURSIVE AdmittedIn(_, _, _, _)
\* The requests of the address let through from one instant to another.
AdmittedIn(history, ip, from, to) ==
    IF from > to THEN 0
    ELSE history[ip][from] + AdmittedIn(history, ip, from + 1, to)

\* The requests of the address let through in the window its entry is of.
WindowAdmissions(limiter, history, ip) ==
    LET since == limiter[ip][1].since
        last == since + AUTHENTICATE_INTERVAL - 1
    IN AdmittedIn(history, ip, since, IF last > MaxTime THEN MaxTime ELSE last)

\* A future of a request that presented no session is suspended.
Suspended(futures) == \E a \in futures : a.arena_id_session_id = None

\* C16: in one window of the limiter at most BURST Authenticate requests of
\* an address are let through; a request of the address that comes in a
\* window that has let BURST through returns "rate limit exceeded" and
\* starts nothing, any other one is let through; a request without an
\* address is always let through and leaves the limiter alone.
C16_AtMostBurst ==
    [][/\ \A ip \in IpAddrs :
            authenticate_rate_limiter'[ip] # None =>
                WindowAdmissions(authenticate_rate_limiter', admissions', ip)
                    <= BURST
       /\ \A ip \in IpAddrs :
            Admission(Some(ip), None) =>
                IF /\ ~Evicted(ip)
                   /\ WindowAdmissions(authenticate_rate_limiter, admissions,
                                       ip) = BURST
                THEN /\ result' # None
                     /\ result'[1].reply = Err("rate limit exceeded")
                     /\ auths' = auths
                     /\ players' = players
                ELSE /\ result' = None
                     /\ Suspended(auths')
                     /\ log' = {}
       /\ Admission(None, None) =>
            /\ result' = None
            /\ Suspended(auths')
            /\ log' = {}
            /\ authenticate_rate_limiter' = authenticate_rate_limiter]_vars

\* A request was turned down in a window that had let BURST through.
C16_Witness ==
    \E ip \in IpAddrs :
        /\ result # None
        /\ result[1].reply = Err("rate limit exceeded")
        /\ ~Evicted(ip)
        /\ WindowAdmissions(authenticate_rate_limiter, admissions, ip) = BURST

\* C17: an Authenticate that presented a session of this arena held by a
\* client in memory returns the player id of that client, settles on the
\* session id of that client and makes no get_session call; the record of
\* the client, if it is still there, is only renewed.
C17_SessionInMemory ==
    [][\A a \in auths, ids \in SessionIds \X AllIds :
          (/\ a.cached_session_id_player_id # None
           /\ Resolution(a, DbOk(None), ids)) =>
              /\ ids = a.cached_session_id_player_id[1]
              /\ a.arena_id_session_id = Some(<<arena_id, ids[1]>>)
              /\ result' # None
              /\ result'[1].reply = Ok(ids[2])
              /\ result'[1].get_session = None
              /\ (HasClient(ids[2]) /\ players[ids[2]].session_id = ids[1]) =>
                    players' = [players EXCEPT
                        ![ids[2]].metrics.date_renewed = unix_time]
              /\ players[ids[2]].kind = "absent" =>
                    players'[ids[2]].session_id = ids[1]]_vars

\* A session in memory was answered without the store, for a client that is
\* still there.
C17_Witness ==
    /\ result # None
    /\ result[1].cached_session_id_player_id # None
    /\ result[1].get_session = None
    /\ result[1].reply.kind = "Ok"
    /\ HasClient(result[1].reply.value)
    /\ players[result[1].reply.value].session_id =
           result[1].arena_id_session_id[1][2]

\* C18: an Authenticate that presented (arena, sid), found no client with
\* sid in memory and got the item {sid, P} from the store returns P; when P
\* has no record it inserts one with session id sid and the metrics
\* supplemented from the item, and otherwise it inserts none.
C18_SessionInStore ==
    [][\A a \in auths, ids \in SessionIds \X AllIds, P \in PlayerIds :
          LET sid == IF a.arena_id_session_id = None THEN 0
                     ELSE a.arena_id_session_id[1][2]
              item == StoredSession(sid, P)
          IN (/\ a.cached_session_id_player_id = None
              /\ a.arena_id_session_id # None
              /\ Resolution(a, DbOk(Some(item)), ids)) =>
                 /\ result' # None
                 /\ result'[1].get_session = a.arena_id_session_id
                 /\ result'[1].reply = Ok(P)
                 /\ IF players[P].kind = "absent"
                    THEN players' = [players EXCEPT ![P] =
                            PlayerClientData(sid,
                                Supplement(ClientMetricData, item))]
                    ELSE /\ \A p \in AllIds : players'[p].kind = players[p].kind
                         /\ players'[P].session_id = players[P].session_id]_vars

\* A session of the store was restored: the record has its session id and
\* knows of the earlier session.
C18_Witness ==
    /\ result # None
    /\ result[1].db_result # None
    /\ result[1].db_result[1].kind = "Ok"
    /\ result[1].db_result[1].item # None
    /\ LET item == result[1].db_result[1].item[1]
       IN /\ result[1].reply = Ok(item.player_id)
          /\ HasClient(item.player_id)
          /\ players[item.player_id].session_id = item.session_id
          /\ players[item.player_id].metrics.date_previous =
                 Some(item.date_renewed)

\* C19: when get_session fails, Authenticate goes on as it does when the
\* store holds no item: it returns Ok with a player id no player held,
\* inserts a record with a session id no client held and metrics that know
\* of no earlier session, and logs no error.
C19_StoreError ==
    [][\A a \in auths, ids \in SessionIds \X AllIds :
          Resolution(a, DbErr, ids) =>
              /\ SessionIdPlayerId(a, DbErr) = SessionIdPlayerId(a, DbOk(None))
              /\ MetricData(a, DbErr) = MetricData(a, DbOk(None))
              /\ result' # None
              /\ result'[1].reply = Ok(ids[2])
              /\ log' = {}
              /\ players[ids[2]].kind = "absent"
              /\ \A p \in Clients : players[p].session_id # ids[1]
              /\ players' = [players EXCEPT ![ids[2]] =
                     PlayerClientData(ids[1], ClientMetricData)]]_vars

\* The store failed and the caller got a player all the same.
C19_Witness ==
    /\ result # None
    /\ result[1].db_result = Some(DbErr)
    /\ result[1].reply.kind = "Ok"
    /\ HasClient(result[1].reply.value)

\* C20: handling an Authenticate up to the suspension of its future, and
\* dropping the suspended future, change no record of the table; a record
\* only comes into the table when a future resolves, and it is the record of
\* the player that future returns.
C20_NothingBeforeTheStoreRead ==
    [][/\ \A c \in Credentials : Admission(None, c) => players' = players
       /\ \A a \in auths :
            (AuthenticateCancel(a) /\ Outside) => players' = players
       /\ \A p \in PlayerIds :
            (players[p].kind = "absent" /\ players'[p].kind = "client") =>
                \E a \in auths : \E r \in DbResults(a) :
                    \E session_id \in SessionIds :
                        Resolution(a, r, <<session_id, p>>)]_vars

\* While an Authenticate is suspended on the store and has made no record,
\* register has run for another player.
C20_Witness ==
    /\ \E a \in auths : GetSession(a) # None
    /\ sent # NoSends
    /\ Cardinality(Clients) = 1

(***************************************************************************)
(* Properties of the life of a record (LifecycleSpec) and of the tick      *)
(* (ClientSpec).                                                           *)
(***************************************************************************)
\* C21: a client record leaves the table only in a prune sweep, and only if
\* it is Pending or Stale with the current time strictly after its expiry;
\* a Connected or Limbo record never leaves it, and a prune sweep leaves a
\* Connected record as it is, whatever the time.
C21_RemovedOnlyByPrune ==
    [][/\ \A p \in PlayerIds :
            (HasClient(p) /\ players'[p].kind # "client") =>
                /\ Prune
                /\ players[p].status.kind \in {"Pending", "Stale"}
                /\ now > players[p].status.expiry
       /\ Prune =>
            \A p \in PlayerIds :
                StatusIs(p, {"Connected"}) => players'[p] = players[p]]_vars

\* The record of the player Authenticate returned last has been removed,
\* and a Connected record is still there at the end of time.
C21_Witness ==
    /\ result # None
    /\ result[1].reply.kind = "Ok"
    /\ players[result[1].reply.value].kind = "absent"
    /\ now = MaxTime
    /\ \E q \in PlayerIds : StatusIs(q, {"Connected"})

\* C22: a TallyFps of a client with a finite value stores the value brought
\* into the range from MIN_TPS to MAX_TPS and replies FpsTallied on the
\* channel the client is connected with; with a value that is not finite it
\* is turned down with "invalid fps" and nothing is sent.
C22_FpsClamped ==
    [][\A w \in websockets, f \in FpsInputs :
          (/\ HasClient(w[2])
           /\ WebSocketRequest(w, [kind |-> "TallyFps", fps |-> f], None)) =>
              IF f.finite
              THEN /\ players'[w[2]].metrics.fps # None
                   /\ LET stored == players'[w[2]].metrics.fps[1]
                      IN /\ MIN_TPS <= stored /\ stored <= MAX_TPS
                         /\ f.value < MIN_TPS => stored = MIN_TPS
                         /\ f.value > MAX_TPS => stored = MAX_TPS
                         /\ (MIN_TPS <= f.value /\ f.value <= MAX_TPS) =>
                                stored = f.value
                   /\ StatusIs(w[2], {"Connected"}) =>
                          sent'[players[w[2]].status.observer] =
                              <<"Client::FpsTallied">>
                   /\ log' = {}
              ELSE /\ sent' = NoSends
                   /\ log' = {Warn("invalid fps", w[2])}]_vars

\* One client has the greatest value stored, the other the least, and the
\* last tally was answered.
C22_Witness ==
    \E p, q \in PlayerIds :
        /\ HasClient(p) /\ HasClient(q)
        /\ players[p].metrics.fps = Some(MAX_TPS)
        /\ players[q].metrics.fps = Some(MIN_TPS)
        /\ \E ch \in Channels : sent[ch] = <<"Client::FpsTallied">>

\* C23: when Authenticate settles on a player that has a client record, the
\* table changes in metrics.date_renewed of that record and in nothing else;
\* when the player has no record, one record comes into the table, that of
\* the player, Pending until now + PENDING_EXPIRY, and no other changes.
C23_RenewOrInsert ==
    [][\A a \in auths, ids \in SessionIds \X AllIds :
          \A r \in DbResults(a) :
              Resolution(a, r, ids) =>
                  IF HasClient(ids[2])
                  THEN players' = [players EXCEPT
                           ![ids[2]].metrics.date_renewed = unix_time]
                  ELSE IF players[ids[2]].kind = "absent"
                  THEN /\ \A q \in AllIds \ {ids[2]} : players'[q] = players[q]
                       /\ players'[ids[2]].kind = "client"
                       /\ players'[ids[2]].session_id = ids[1]
                       /\ players'[ids[2]].status =
                              Pending(now + PENDING_EXPIRY)
                  ELSE players' = players]_vars

\* A Connected client was found in memory and renewed at a later time of
\* day: it is still Connected.
C23_Witness ==
    /\ result # None
    /\ result[1].cached_session_id_player_id # None
    /\ result[1].reply.kind = "Ok"
    /\ StatusIs(result[1].reply.value, {"Connected"})
    /\ unix_time > 0
    /\ players[result[1].reply.value].metrics.date_renewed = unix_time
    /\ \E q \in PlayerIds : StatusIs(q, {"Pending"})

\* C24: an Authenticate that the limiter of the addresses turns down returns
\* "rate limit exceeded": it asks the store nothing, records no session
\* start in the metrics, suspends no future and changes no record.
C24_DeniedTouchesNothing ==
    [][\A ip \in IpAddrs :
          (/\ ~Evicted(ip)
           /\ authenticate_rate_limiter[ip][1].admitted >= BURST
           /\ Admission(Some(ip), None)) =>
              /\ result' # None
              /\ result'[1].reply = Err("rate limit exceeded")
              /\ result'[1].get_session = None
              /\ result'[1].start_session = None
              /\ log' = {Line("IP was rate limited", 0)}
              /\ auths' = auths
              /\ players' = players]_vars

\* A request was turned down while the table held a record.
C24_Witness ==
    /\ result # None
    /\ result[1].reply = Err("rate limit exceeded")
    /\ result[1].start_session = None
    /\ Clients # {}

\* C25: an Authenticate that presented no session, or one that was found
\* neither in memory nor in the store, returns a player id that no record
\* of the table, client or bot, held when its future resolved, and settles
\* on a session id that no client held then.
C25_FreshIds ==
    [][\A a \in auths, ids \in SessionIds \X AllIds :
          \A r \in {DbOk(None), DbErr} :
              (/\ a.cached_session_id_player_id = None
               /\ Resolution(a, r, ids)) =>
                  /\ result'[1].reply = Ok(ids[2])
                  /\ players[ids[2]].kind = "absent"
                  /\ \A p \in Clients : players[p].session_id # ids[1]
                  /\ players'[ids[2]].kind = "client"
                  /\ players'[ids[2]].session_id = ids[1]]_vars

\* A client was there when a request without an earlier session was given
\* the other player id and the other session id.
C25_Witness ==
    /\ result # None
    /\ result[1].cached_session_id_player_id = None
    /\ result[1].db_result = Some(DbOk(None))
    /\ result[1].reply.kind = "Ok"
    /\ Cardinality(Clients) = NumPlayers
    /\ \A p, q \in Clients :
           p # q => players[p].session_id # players[q].session_id

\* C26: a Register for a player that has no record, or whose record is that
\* of a bot, enqueues nothing on any channel, makes no player_joined and no
\* player_left call and changes nothing but the log, which gets a warning.
C26_RegisterWithoutClient ==
    [][\A p \in AllIds, ch \in Channels, i \in InitializerInputs :
          (~HasClient(p) /\ Register(p, ch, i[1], i[2])) =>
              /\ sent' = NoSends
              /\ joined_minus_left' = joined_minus_left
              /\ players' = players
              /\ UNCHANGED <<time, auths, store, config, swept>>
              /\ log' = {Line(IF players[p].kind = "bot"
                              THEN "register wasn't a client"
                              ELSE "client gone in register", p)}]_vars

\* A Register found no record while another player was connected.
C26_Witness ==
    \E p, q \in PlayerIds :
        /\ players[p].kind = "absent"
        /\ log = {Line("client gone in register", p)}
        /\ sent = NoSends
        /\ StatusIs(q, {"Connected"})

\* C27: a Register for a client, whatever its status was, leaves the client
\* Connected on the channel with its data, its chat state and its team state
\* at their defaults.
C27_RegisterForgets ==
    [][\A p \in PlayerIds, ch \in Channels, i \in InitializerInputs :
          (HasClient(p) /\ Register(p, ch, i[1], i[2])) =>
              /\ players'[p].data = ClientData
              /\ players'[p].chat = ClientChatData
              /\ players'[p].team = ClientTeamData
              /\ players'[p].status = Connected(ch)]_vars

\* A client restored from limbo remembers nothing, while a client that a
\* tick has reached does.
C27_Witness ==
    \E p, q \in PlayerIds :
        /\ HasClient(p) /\ HasClient(q)
        /\ Line("restored from limbo", p) \in log
        /\ players[p].data = ClientData
        /\ players[p].chat = ClientChatData
        /\ players[p].team = ClientTeamData
        /\ players[q].data = Kept

\* C28: in a prune sweep a client in Limbo whose expiry has come (now >=
\* expiry) becomes Stale until now + STALE_EXPIRY and is otherwise as it
\* was, it is not removed, and player_left is called once for it; a client
\* in Limbo whose expiry has not come stays as it is and player_left is not
\* called for it.
C28_LimboExpires ==
    [][Prune =>
          \A p \in PlayerIds :
              StatusIs(p, {"Limbo"}) =>
                  IF now >= players[p].status.expiry
                  THEN /\ players'[p] = [players[p] EXCEPT
                              !.status = Stale(now + STALE_EXPIRY)]
                       /\ joined_minus_left'[p] = joined_minus_left[p] - 1
                       /\ Line("expired from limbo", p) \in log'
                  ELSE /\ players'[p] = players[p]
                       /\ joined_minus_left'[p] = joined_minus_left[p]
                       /\ Line("expired from limbo", p) \notin log']_vars

\* A sweep has made one client Stale and left another in Limbo.
C28_Witness ==
    \E p, q \in PlayerIds :
        /\ StatusIs(p, {"Stale"})
        /\ players[p].status.expiry = now + STALE_EXPIRY
        /\ log = {Line("expired from limbo", p)}
        /\ joined_minus_left[p] = 0
        /\ StatusIs(q, {"Limbo"})
        /\ now < players[q].status.expiry
        /\ joined_minus_left[q] = 1

\* The step is a tick over the clients in the order o.
Ticks(o) ==
    /\ ticked' # None
    /\ Update(ticked'[1].deltas, o, ticked'[1].closed)

\* C29: during a tick, updates are enqueued only on channels bound to
\* clients whose status is Connected, so that a Pending, Limbo or Stale
\* client, which has no channel, receives nothing; and the tick, sends that
\* fail on a closed channel included, changes the status of no client and
\* removes no record.
C29_TickSendsToConnectedOnly ==
    [][\A o \in Orders :
          Ticks(o) =>
              /\ \A ch \in Channels :
                    sent'[ch] # <<>> =>
                        \E p \in Clients : players[p].status = Connected(ch)
              /\ \A p \in AllIds :
                    /\ players'[p].kind = players[p].kind
                    /\ HasClient(p) =>
                          players'[p].status = players[p].status]_vars

\* A tick sent every update to the connected client, and nothing on the
\* channel that the client in limbo had.
C29_Witness ==
    \E p, q \in Clients :
        /\ players[p].status = Connected(1)
        /\ StatusIs(q, {"Limbo"})
        /\ sent[1] = ClientUpdates(Deltas(TRUE, NumPeriods))
        /\ sent[2] = <<>>

\* The order of the updates of a tick.
UpdateOrder ==
    <<"Game", "Player::Updated", "Team::AddedOrUpdated", "Team::Removed",
      "Chat", "Team::Members", "Team::Joiners", "Team::Joins",
      "Leaderboard::Updated", "Liveboard::Updated", "System::Added",
      "System::Removed">>

UpdateKinds == {UpdateOrder[i] : i \in DOMAIN UpdateOrder}

Rank == [m \in UpdateKinds |->
            CHOOSE i \in DOMAIN UpdateOrder : UpdateOrder[i] = m]

\* How many updates of the kind m the deltas d hold.
Expected(d, m) ==
    LET one(b) == IF b THEN 1 ELSE 0
    IN CASE m = "Game" -> one(d.game)
         [] m = "Player::Updated" -> one(d.player)
         [] m = "Team::AddedOrUpdated" -> one(d.team_added)
         [] m = "Team::Removed" -> one(d.team_removed)
         [] m = "Chat" -> one(d.chat)
         [] m = "Team::Members" -> one(d.members)
         [] m = "Team::Joiners" -> one(d.joiners)
         [] m = "Team::Joins" -> one(d.joins)
         [] m = "Leaderboard::Updated" -> d.leaderboards
         [] m = "Liveboard::Updated" -> one(d.liveboard)
         [] m = "System::Added" -> one(d.system_added)
         [] m = "System::Removed" -> one(d.system_removed)

Count(s, m) == Cardinality({i \in DOMAIN s : s[i] = m})

\* C30: within one tick, the updates on the channel of a Connected client
\* are in the order Game, Player::Updated, Team::AddedOrUpdated,
\* Team::Removed, Chat, Team::Members, Team::Joiners, Team::Joins,
\* Leaderboard::Updated, Liveboard::Updated, System::Added,
\* System::Removed; each is there only if its delta is present, and there
\* is one Leaderboard::Updated for each period with a delta.
C30_UpdatesInOrder ==
    [][\A o \in Orders :
          Ticks(o) =>
              \A ch \in Channels \ ticked'[1].closed :
                  Cardinality({p \in Clients :
                                  players[p].status = Connected(ch)}) = 1 =>
                      LET s == sent'[ch]
                      IN /\ \A i \in DOMAIN s : s[i] \in UpdateKinds
                         /\ \A i \in 1 .. Len(s) - 1 :
                               \/ Rank[s[i]] < Rank[s[i + 1]]
                               \/ /\ s[i] = "Leaderboard::Updated"
                                  /\ s[i + 1] = "Leaderboard::Updated"
                         /\ \A m \in UpdateKinds :
                               Count(s, m) = Expected(ticked'[1].deltas, m)]_vars

\* A tick sent every update but the chat's to the connected client.
C30_Witness ==
    \E p \in Clients :
        /\ players[p].status = Connected(1)
        /\ players[p].data = Kept
        /\ sent[1] = <<"Game", "Player::Updated", "Team::AddedOrUpdated",
                       "Team::Removed", "Team::Members", "Team::Joiners",
                       "Team::Joins">>
                     \o Repeat("Leaderboard::Updated", NumPeriods)
                     \o <<"Liveboard::Updated", "System::Added",
                          "System::Removed">>

(***************************************************************************)
(* More properties of the session persister (SessionSpec).                 *)
(***************************************************************************)
\* The player has a client whose item, built now, is not the one it holds.
CandidateDiffers(p) ==
    /\ HasClient(p)
    /\ players[p].session_item # Some(SessionItem(p, SweepServerId[1]))

\* C31: a sweep that runs enqueues put_session for a player if and only if
\* the store is writable and the item built from the player's record
\* differs from the client's session_item; it sets session_item to that
\* item for every player whose item differed, also when the store is
\* read-only, and then it issues no put_session.
C31_PutIffWritableAndDiffers ==
    [][(SweepRuns /\ UpdateToDatabase) =>
          /\ \A p \in AllIds :
                /\ puts'[p] \in {0, 1}
                /\ (puts'[p] = 1) <=>
                       (~database_read_only /\ CandidateDiffers(p))
                /\ (puts'[p] = 1) =>
                       SessionItem(p, SweepServerId[1]) \in inflight'
                /\ CandidateDiffers(p) =>
                       players'[p].session_item
                           = Some(SessionItem(p, SweepServerId[1]))
                /\ ~CandidateDiffers(p) => players'[p] = players[p]
          /\ inflight' \ inflight
                = {SessionItem(p, SweepServerId[1]) :
                      p \in {q \in AllIds : puts'[q] = 1}} \ inflight
          /\ database_read_only => inflight' = {}]_vars

\* A sweep of a read-only store has just set the session_item of a client
\* and written nothing.
C31_Witness ==
    /\ database_read_only
    /\ swept
    /\ inflight = {}
    /\ puts = NoCalls
    /\ \E p \in PlayerIds :
          /\ HasClient(p)
          /\ players[p].session_item # None
          /\ Line("would have written", p) \in log

\* C32: with the server id unknown and a writable store, an invocation of
\* the persister issues no put_session and changes the session_item of no
\* client; with the server id unknown and a read-only store, the sweep
\* proceeds with the fixed substitute server id.
C32_UnknownServerId ==
    [][(server_id = None /\ UpdateToDatabase) =>
          /\ ~database_read_only =>
                /\ players' = players
                /\ inflight' = inflight
                /\ puts' = puts
                /\ log' = log
          /\ (database_read_only /\ ~ShouldLimitRate) =>
                /\ swept'
                /\ \A p \in Clients :
                      /\ players'[p].session_item # None
                      /\ players'[p].session_item[1]
                            = SessionItem(p, FAKE_SERVER_ID)]_vars

\* A sweep of a read-only store, the server id unknown, has just built the
\* item of a client with the substitute.
C32_Witness ==
    /\ database_read_only
    /\ server_id = None
    /\ swept
    /\ \E p \in PlayerIds :
          /\ HasClient(p)
          /\ players[p].session_item # None
          /\ players[p].session_item[1].server_id = FAKE_SERVER_ID

\* The instant of the last invocation that the limiter admitted (one
\* interval before the start, if there was none).
LastAdmitted == database_until - DATABASE_RATE_LIMIT

\* C33: any two invocations of the persister that get past the database
\* rate limiter are at least the interval of the limiter apart; an
\* invocation less than the interval after the last admitted one issues no
\* put_session and changes no session_item.
C33_SweepsApart ==
    [][/\ database_until' # database_until =>
             /\ now - LastAdmitted >= DATABASE_RATE_LIMIT
             /\ database_until' - DATABASE_RATE_LIMIT = now
       /\ (UpdateToDatabase /\ now - LastAdmitted < DATABASE_RATE_LIMIT) =>
             /\ players' = players
             /\ inflight' = inflight
             /\ puts' = puts
             /\ database_until' = database_until
       /\ (UpdateToDatabase /\ now - LastAdmitted >= DATABASE_RATE_LIMIT) =>
             database_until' - DATABASE_RATE_LIMIT = now]_vars

\* Two sweeps, hence an interval apart, have each written an item of the
\* same player, and an invocation is limited now.
C33_Witness ==
    /\ ShouldLimitRate
    /\ \E i, j \in inflight : i # j /\ i.player_id = j.player_id

(***************************************************************************)
(* More properties of the traces (TraceSpec) and of the requests.          *)
(***************************************************************************)
\* What an accepted trace writes: one line, to the file or to the log.
TraceLines(p) ==
    {Line("client_trace", p), Line("trace file append", p),
     Line("could not open file for traces", p)}

\* C34: the traces counter of a client never exceeds TRACE_LIMIT; a Trace
\* whose message is longer than TRACE_MAX_LEN bytes is turned down with
\* "trace too long", the counter as it was and no line of a trace written;
\* an accepted Trace adds exactly one to the counter.
C34_TraceCounter ==
    [][/\ \A p \in AllIds :
             players'[p].kind = "client" =>
                 players'[p].traces \in 0 .. TRACE_LIMIT
       /\ \A w \in websockets, t \in TraceLogs, n \in TraceLengths :
             (HasClient(w[2]) /\ WebSocketTrace(w, n, t)) =>
                 /\ n > TRACE_MAX_LEN =>
                       /\ log' = {Warn("trace too long", w[2])}
                       /\ players' = players
                       /\ sent' = NoSends
                 /\ (n <= TRACE_MAX_LEN
                        /\ players[w[2]].traces < TRACE_LIMIT) =>
                       /\ players' =
                            [players EXCEPT ![w[2]].traces = @ + 1]
                       /\ log' \subseteq TraceLines(w[2])
                       /\ Cardinality(log') = 1
                       /\ StatusIs(w[2], {"Connected"}) =>
                             sent'[players[w[2]].status.observer]
                                 = <<"Client::Traced">>
                 /\ log' \cap TraceLines(w[2]) # {} =>
                       players'[w[2]].traces = players[w[2]].traces + 1]_vars

\* A client with an accepted trace has just had a long one turned down.
C34_Witness ==
    \E p \in PlayerIds :
        /\ HasClient(p)
        /\ players[p].traces = 1
        /\ log = {Warn("trace too long", p)}

\* C35: whenever the handler of a Request gets an immediate reply
\* (Ok(Some(update))) for a player with a client record, the status of the
\* client is Connected: the debug assertions of the reply never fail.
C35_ReplyFindsConnected ==
    [][\A w \in websockets, r \in RequestInputs :
          (HasClient(w[2]) /\ WebSocketRequest(w, r, None)) =>
              LET handled == HandleObserverRequest(w[2], r, None)
              IN (handled.result.kind = "Ok"
                      /\ handled.result.value # None) =>
                     /\ handled.players[w[2]].kind = "client"
                     /\ handled.players[w[2]].status.kind = "Connected"]_vars

(***************************************************************************)
(* More properties of what Authenticate returns (ReturnSpec).              *)
(***************************************************************************)
\* C36: after an Authenticate that presented a session id and resolved it
\* from memory or from the store, the client record of the player id it
\* returns has that session id.
C36_RecordHasPresentedSession ==
    [][\A a \in auths :
          \A r \in DbResults(a) :
              \A ids \in SessionIdPlayerId(a, r) :
                  (/\ a.arena_id_session_id # None
                   /\ \/ a.cached_session_id_player_id # None
                      \/ r.kind = "Ok" /\ r.item # None
                   /\ Resolution(a, r, ids)) =>
                      /\ players'[ids[2]].kind = "client"
                      /\ players'[ids[2]].session_id
                            = a.arena_id_session_id[1][2]]_vars

(***************************************************************************)
(* More properties of the connection (ClientSpec).                         *)
(***************************************************************************)
\* C37: the channel bound to a Connected client has never been sent Close:
\* a Register, also one with the channel that the player is already bound
\* to, sends no Close on the channel it binds.
C37_BoundChannelNeverClosed ==
    [][\A p \in PlayerIds, ch \in Channels, i \in InitializerInputs :
          (HasClient(p) /\ Register(p, ch, i[1], i[2])) =>
              /\ players'[p].status = Connected(ch)
              /\ Closes(sent'[ch]) = 0]_vars

\* C38: a Register for a record that is in the table with status Pending or
\* Stale makes it Connected and calls player_joined, also when the expiry
\* of the record has passed and no sweep has run since; and no sweep
\* removes or changes a record that is Connected.
C38_LateRegister ==
    [][/\ \A p \in PlayerIds, ch \in Channels, i \in InitializerInputs :
             (StatusIs(p, {"Pending", "Stale"})
                  /\ Register(p, ch, i[1], i[2])) =>
                 /\ players'[p].kind = "client"
                 /\ players'[p].status = Connected(ch)
                 /\ joined_minus_left'[p] = joined_minus_left[p] + 1
       /\ Prune =>
             \A p \in AllIds :
                 StatusIs(p, {"Connected"}) => players'[p] = players[p]]_vars

\* At the last instant a record that was Pending or Stale has just been
\* registered, while another record whose time is up waits for a sweep.
C38_Witness ==
    \E p, q \in PlayerIds :
        /\ p # q
        /\ now = MaxTime
        /\ StatusIs(p, {"Connected"})
        /\ joined_minus_left[p] = 1
        /\ log = {}
        /\ sent[players[p].status.observer] # <<>>
        /\ Head(sent[players[p].status.observer]) = "SessionCreated"
        /\ \A ch \in Channels : Closes(sent[ch]) = 0
        /\ StatusIs(q, {"Pending", "Stale"})
        /\ now > players[q].status.expiry

(***************************************************************************)
(* More properties of the tick (TickSpec).                                 *)
(***************************************************************************)
\* C39: in every tick, every client that the fan-out finds Connected has an
\* entry in the map of the chat and team deltas made at the start of the
\* same tick, so that it is sent the chat and team updates there are.
C39_ConnectedHaveEntry ==
    [][\A o \in Orders :
          Ticks(o) =>
              \A p \in AllIds :
                  StatusIs(p, {"Connected"}) =>
                      /\ p \in PlayerChatTeamUpdates
                      /\ LET ch == players[p].status.observer
                             d == ticked'[1].deltas
                         IN ch \notin ticked'[1].closed =>
                                /\ Count(sent'[ch], "Chat") > 0 <=> d.chat
                                /\ Count(sent'[ch], "Team::Members") > 0
                                       <=> d.members
                                /\ Count(sent'[ch], "Team::Joiners") > 0
                                       <=> d.joiners
                                /\ Count(sent'[ch], "Team::Joins") > 0
                                       <=> d.joins]_vars

\* A tick with a chat delta has just sent it to a connected client, which
\* has an entry in the map.
C39_Witness ==
    /\ ticked # None
    /\ ticked[1].deltas.chat
    /\ \E p \in PlayerChatTeamUpdates :
          /\ players[p].status.observer \notin ticked[1].closed
          /\ Count(sent[players[p].status.observer], "Chat") = 1
          /\ Count(sent[players[p].status.observer], "Team::Joins") = 1

(***************************************************************************)
(* The limiter and the server id (SessionSpec).                            *)
(***************************************************************************)
\* C40: the database rate limiter is consulted before the server id: an
\* invocation that the limiter admits and that returns early, the server id
\* unknown and the store writable, uses the allowance of the limiter, and
\* an invocation within the interval of it issues no write, even with the
\* server id known by then.
C40_EarlyReturnUsesAllowance ==
    [][/\ (UpdateToDatabase /\ ~ShouldLimitRate /\ server_id = None
              /\ ~database_read_only) =>
             /\ returned_early' = Some(now)
             /\ players' = players
             /\ inflight' = inflight
             /\ puts' = puts
       /\ (UpdateToDatabase /\ returned_early # None
              /\ now - returned_early[1] < DATABASE_RATE_LIMIT) =>
             /\ inflight' = inflight
             /\ puts' = puts
             /\ players' = players]_vars

\* The allowance was used at this instant and the server id is known, yet
\* no item of the client there is was ever built or written.
C40_Witness ==
    /\ ~database_read_only
    /\ server_id # None
    /\ returned_early = Some(now)
    /\ ShouldLimitRate
    /\ inflight = {}
    /\ put_failed = {}
    /\ puts = NoCalls
    /\ \E p \in PlayerIds : HasClient(p)
    /\ \A p \in Clients : players[p].session_item = None

====
